---- MODULE Spec2Model ----
(***************************************************************************)
(* Wall block packer of Nic0Byte/wall-build.                               *)
(*                                                                         *)
(* Two packers live in the repository: src/core/wall_builder.py (the       *)
(* "core" packer: plain greedy, 0.95 area-ratio test, adaptive last        *)
(* course, aperture filter) and src/main.py (the "main" packer: order      *)
(* trials, micro-rest backtrack, buffered keep-out).  Both are modelled.   *)
(*                                                                         *)
(* Geometry.  Coordinates are whole millimetres (multiples of SNAP_MM).    *)
(* A rectangle is a record [x0, y0, x1, y1]; a geometry (shapely Polygon   *)
(* or MultiPolygon) is a finite set of rectangles with pairwise disjoint   *)
(* interiors.  Areas are therefore integers: "area >= AREA_EPS" and        *)
(* "area > AREA_EPS" (AREA_EPS = 1e-3) both mean area >= 1, and            *)
(* "a < b - COORD_EPS" (COORD_EPS = 1e-6) means a < b.                     *)
(***************************************************************************)
EXTENDS Integers, Sequences, FiniteSets, TLC

\* ------------------------------------------------------------------------
\* Configuration constants (src/main.py 76-94; imported by the core packer
\* from utils.config with the same values)
\* ------------------------------------------------------------------------
SCARTO_CUSTOM_MM == 5
MICRO_REST_MM == 15
KEEP_OUT_MM == 2
SPLIT_MAX_WIDTH_MM == 413
BLOCK_HEIGHT == 495
BLOCK_WIDTHS == <<1239, 826, 413>>
BLOCK_ORDERS == << <<1239, 826, 413>>, <<826, 1239, 413>> >>
SIZE_TO_LETTER == (1239 :> "A") @@ (826 :> "B") @@ (413 :> "C")
MIN_ADAPTIVE_HEIGHT == 150
MIN_APERTURE_AREA == 1000

\* AREA_EPS = 1e-3 as a fraction
AREA_EPS_NUM == 1
AREA_EPS_DEN == 1000

\* area >= AREA_EPS, for an integer area
AreaGeEps(a) == a * AREA_EPS_DEN >= AREA_EPS_NUM
\* d <= AREA_EPS * n, for an integer d and a piece count n
LeEpsTimes(d, n) == d <= (n * AREA_EPS_NUM) \div AREA_EPS_DEN

\* Optional[int]: <<>> is None, <<v>> is the value v
None == <<>>
Some(v) == <<v>>

\* ------------------------------------------------------------------------
\* Small helpers
\* ------------------------------------------------------------------------
Min2(a, b) == IF a <= b THEN a ELSE b
Max2(a, b) == IF a >= b THEN a ELSE b
Abs(a) == IF a >= 0 THEN a ELSE 0 - a
SeqRange(s) == {s[i] : i \in 1..Len(s)}
SetMin(S) == CHOOSE m \in S : \A n \in S : m <= n
SetMax(S) == CHOOSE m \in S : \A n \in S : m >= n

RECURSIVE SumSeq(_)
SumSeq(s) == IF s = <<>> THEN 0 ELSE Head(s) + SumSeq(Tail(s))

\* sorted(widths, reverse=True)
RECURSIVE SortedDesc(_)
SortedDesc(s) ==
    IF s = <<>> THEN <<>>
    ELSE LET m == SetMax(SeqRange(s))
             i == CHOOSE j \in 1..Len(s) : s[j] = m /\ \A k \in 1..(j - 1) : s[k] # m
             rest == [k \in 1..(Len(s) - 1) |-> IF k < i THEN s[k] ELSE s[k + 1]]
         IN <<m>> \o SortedDesc(rest)

\* Python round(num / den) for den > 0: nearest, ties to even
PyRound(num, den) ==
    LET q == num \div den
        r == num % den
    IN IF 2 * r < den THEN q
       ELSE IF 2 * r > den THEN q + 1
       ELSE IF q % 2 = 0 THEN q ELSE q + 1

\* snap(v, grid=SNAP_MM): round(v / grid) * grid
SNAP_MM == 1
snap(v) == IF SNAP_MM <= 0 THEN v ELSE PyRound(v, SNAP_MM) * SNAP_MM

\* ------------------------------------------------------------------------
\* Geometry (shapely primitives on rectilinear shapes)
\* ------------------------------------------------------------------------
box(x0, y0, x1, y1) == [x0 |-> x0, y0 |-> y0, x1 |-> x1, y1 |-> y1]

RectNonEmpty(r) == r.x1 > r.x0 /\ r.y1 > r.y0
RectArea(r) == IF RectNonEmpty(r) THEN (r.x1 - r.x0) * (r.y1 - r.y0) ELSE 0
RectInter(a, b) ==
    box(Max2(a.x0, b.x0), Max2(a.y0, b.y0), Min2(a.x1, b.x1), Min2(a.y1, b.y1))

\* a minus k, as at most four rectangles
RectMinus(a, k) ==
    IF ~RectNonEmpty(RectInter(a, k)) THEN {a}
    ELSE LET mx0 == Max2(a.x0, k.x0)
             mx1 == Min2(a.x1, k.x1)
             parts == { box(a.x0, a.y0, mx0, a.y1),
                        box(mx1, a.y0, a.x1, a.y1),
                        box(mx0, a.y0, mx1, Min2(a.y1, k.y0)),
                        box(mx0, Max2(a.y0, k.y1), mx1, a.y1) }
         IN {p \in parts : RectNonEmpty(p)}

RECURSIVE Area(_)
Area(g) ==
    IF g = {} THEN 0
    ELSE LET a == CHOOSE a \in g : TRUE IN RectArea(a) + Area(g \ {a})

IsEmpty(g) == g = {}

\* g.intersection(box)
Intersection(g, r) == {p \in {RectInter(a, r) : a \in g} : RectNonEmpty(p)}

\* g.difference(box)
DifferenceRect(g, r) == UNION {RectMinus(a, r) : a \in g}

\* g.difference(h) for a geometry h
RECURSIVE Difference(_, _)
Difference(g, h) ==
    IF h = {} THEN g
    ELSE LET k == CHOOSE k \in h : TRUE IN Difference(DifferenceRect(g, k), h \ {k})

\* area of g.intersection(h)
RECURSIVE InterArea(_, _)
InterArea(g, h) ==
    IF h = {} THEN 0
    ELSE LET k == CHOOSE k \in h : TRUE
         IN Area(Intersection(g, k)) + InterArea(g, h \ {k})

\* g.bounds
Bounds(g) ==
    box(SetMin({a.x0 : a \in g}), SetMin({a.y0 : a \in g}),
        SetMax({a.x1 : a \in g}), SetMax({a.y1 : a \in g}))

\* comp.contains(box)
Contains(g, r) == Area(Intersection(g, r)) = RectArea(r)

\* two rectangles share a boundary segment of positive length
Touch(a, b) ==
    \/ (a.x1 = b.x0 \/ b.x1 = a.x0) /\ Min2(a.y1, b.y1) > Max2(a.y0, b.y0)
    \/ (a.y1 = b.y0 \/ b.y1 = a.y0) /\ Min2(a.x1, b.x1) > Max2(a.x0, b.x0)

RECURSIVE Grow(_, _)
Grow(g, s) ==
    LET n == {b \in g \ s : \E a \in s : Touch(a, b)}
    IN IF n = {} THEN s ELSE Grow(g, s \cup n)

\* the connected parts of g (the polygons of a MultiPolygon), listed left to
\* right, then bottom to top
RECURSIVE OrderParts(_)
OrderParts(ps) ==
    IF ps = {} THEN <<>>
    ELSE LET first == CHOOSE p \in ps : \A q \in ps :
                         \/ Bounds(p).x0 < Bounds(q).x0
                         \/ Bounds(p).x0 = Bounds(q).x0 /\ Bounds(p).y0 <= Bounds(q).y0
         IN <<first>> \o OrderParts(ps \ {first})

Parts(g) == OrderParts({Grow(g, {a}) : a \in g})

\* ensure_multipolygon(geom)
ensure_multipolygon(g) == Parts(g)

\* unary_union(list of geometries): the pieces of each geometry not already
\* covered by the earlier ones
RECURSIVE unary_union(_)
unary_union(gs) ==
    IF gs = <<>> THEN {}
    ELSE LET front == unary_union(SubSeq(gs, 1, Len(gs) - 1))
         IN front \cup Difference(gs[Len(gs)], front)

\* A wall polygon: an exterior rectangle and a list of rectangular holes
Polygon(ext, holes) == [ext |-> ext, holes |-> holes]
PolyGeom(p) == Difference({p.ext}, SeqRange(p.holes))
PolyArea(p) == Area(PolyGeom(p))
\* polygon_holes(p)
polygon_holes(p) == p.holes

\* ------------------------------------------------------------------------
\* Piece constructors
\* ------------------------------------------------------------------------
\* _mk_std (src/core/wall_builder.py 77-78, src/main.py 1269-1270)
mk_std(x, y, w, h) ==
    [type |-> <<"std", w, h>>, width |-> w, height |-> h, x |-> snap(x), y |-> snap(y)]

\* choose_optimal_source_block_for_custom (src/core/wall_builder.py 104-131)
choose_optimal_source_block_for_custom(required_width, available_widths) ==
    LET suitable_blocks == {w \in SeqRange(available_widths) : w >= required_width}
    IN IF suitable_blocks = {} THEN SetMax(SeqRange(available_widths))
       ELSE SetMin(suitable_blocks)

\* _mk_custom of the core packer; available_widths = <<>> stands for None
Core_mk_custom(geom, available_widths) ==
    LET b == Bounds(geom)
        required_width == snap(b.x1 - b.x0)
        source_block_width ==
            IF available_widths # <<>>
                THEN choose_optimal_source_block_for_custom(required_width, available_widths)
                ELSE required_width
    IN [type |-> <<"custom">>, width |-> required_width, height |-> snap(b.y1 - b.y0),
        x |-> snap(b.x0), y |-> snap(b.y0), geometry |-> geom,
        source_block_width |-> source_block_width,
        waste |-> source_block_width - required_width]

Core_mk_custom_default(geom) == Core_mk_custom(geom, <<>>)

\* _mk_custom of the main packer
Main_mk_custom(geom) ==
    LET b == Bounds(geom)
    IN [type |-> <<"custom">>, width |-> snap(b.x1 - b.x0), height |-> snap(b.y1 - b.y0),
        x |-> snap(b.x0), y |-> snap(b.y0), geometry |-> geom]

\* the rectangle of a placement
PieceRect(p) == box(p.x, p.y, p.x + p.width, p.y + p.height)

\* total area of a list of pieces: geometry area of a custom piece, rectangle
\* area of a placement
RECURSIVE PiecesArea(_)
PiecesArea(ps) ==
    IF ps = <<>> THEN 0
    ELSE (IF "geometry" \in DOMAIN Head(ps) THEN Area(Head(ps).geometry)
          ELSE RectArea(PieceRect(Head(ps)))) + PiecesArea(Tail(ps))


\* ------------------------------------------------------------------------
\* Core packer: segment packing (src/core/wall_builder.py)
\* ------------------------------------------------------------------------
\* intersec.area / candidate.area >= 0.95
CoreStdFits(intersec_area, candidate_area) == 20 * intersec_area >= 19 * candidate_area

\* the height given to the standard blocks of a full course (lines 207, 226)
CoreStdHeight(stripe_height) == BLOCK_HEIGHT

\* the tail residual is turned into a custom piece (line 240)
CoreTailKept(spazio_rimanente) == spazio_rimanente > MICRO_REST_MM

\* the while loop of _pack_segment_with_order (lines 213-245)
RECURSIVE CoreGreedy(_, _, _, _, _, _, _)
CoreGreedy(comp, y, stripe_top, widths_order, seg_maxx, cursor, acc) ==
    IF ~(cursor < seg_maxx) THEN acc
    ELSE
      LET spazio_rimanente == seg_maxx - cursor
          Cand(i) == box(cursor, y, cursor + widths_order[i], stripe_top)
          Usable(i) == /\ widths_order[i] <= spazio_rimanente
                       /\ AreaGeEps(Area(Intersection(comp, Cand(i))))
          idx == {i \in 1..Len(widths_order) : Usable(i)}
      IN IF idx # {}
         THEN LET i == SetMin(idx)
                  block_width == widths_order[i]
                  intersec == Intersection(comp, Cand(i))
              IN IF CoreStdFits(Area(intersec), RectArea(Cand(i)))
                 THEN CoreGreedy(comp, y, stripe_top, widths_order, seg_maxx,
                                 snap(cursor + block_width),
                                 [acc EXCEPT !.placed = Append(@,
                                     mk_std(cursor, y, block_width,
                                            CoreStdHeight(stripe_top - y)))])
                 ELSE CoreGreedy(comp, y, stripe_top, widths_order, seg_maxx,
                                 snap(cursor + block_width),
                                 [acc EXCEPT !.custom = Append(@,
                                     Core_mk_custom(intersec, widths_order))])
         ELSE LET remaining_intersec == Intersection(comp, box(cursor, y, seg_maxx, stripe_top))
              IN IF CoreTailKept(spazio_rimanente) /\ AreaGeEps(Area(remaining_intersec))
                 THEN [acc EXCEPT !.custom = Append(@,
                          Core_mk_custom(remaining_intersec, widths_order))]
                 ELSE acc

\* _pack_segment_with_order of the core packer (lines 181-247)
Core_pack_segment_with_order(comp, y0, stripe_top0, widths_order, offset) ==
    LET seg_minx == snap(Bounds(comp).x0)
        seg_maxx == snap(Bounds(comp).x1)
        y == snap(y0)
        stripe_top == snap(stripe_top0)
        candidate == box(seg_minx, y, seg_minx + offset, stripe_top)
        intersec == Intersection(comp, candidate)
        slot == offset # 0 /\ seg_minx + offset <= seg_maxx /\ AreaGeEps(Area(intersec))
        acc0 == IF ~slot THEN [placed |-> <<>>, custom |-> <<>>]
                ELSE IF CoreStdFits(Area(intersec), RectArea(candidate))
                     THEN [placed |-> <<mk_std(seg_minx, y, offset,
                                               CoreStdHeight(stripe_top - y))>>,
                           custom |-> <<>>]
                     ELSE [placed |-> <<>>,
                           custom |-> <<Core_mk_custom(intersec, widths_order)>>]
        cursor0 == IF slot THEN snap(seg_minx + offset) ELSE seg_minx
    IN CoreGreedy(comp, y, stripe_top, widths_order, seg_maxx, cursor0, acc0)

\* the placement loop of _pack_segment_with_order_adaptive (lines 274-318)
RECURSIVE AdaptiveLoop(_, _, _, _, _, _, _)
AdaptiveLoop(comp, y, effective_height, widths_order, maxx, x, placed) ==
    IF ~(x < maxx) THEN placed
    ELSE
      LET remaining_width == maxx - x
          optIdx == {i \in 1..Len(widths_order) : remaining_width >= widths_order[i] - 5}
          FitsAt(w) == x + w <= maxx /\ Contains(comp, box(x, y, x + w, y + effective_height))
          optimalOk == optIdx # {} /\ FitsAt(widths_order[SetMin(optIdx)])
          fbIdx == {i \in 1..Len(widths_order) : FitsAt(widths_order[i])}
          best_width == IF optimalOk THEN Some(widths_order[SetMin(optIdx)])
                        ELSE IF fbIdx # {} THEN Some(widths_order[SetMin(fbIdx)])
                        ELSE None
      IN IF best_width # None
         THEN AdaptiveLoop(comp, y, effective_height, widths_order, maxx, x + best_width[1],
                  Append(placed, [x |-> snap(x), y |-> snap(y), width |-> best_width[1],
                                  height |-> snap(effective_height),
                                  type |-> <<"adaptive_block", best_width[1]>>]))
         ELSE AdaptiveLoop(comp, y, effective_height, widths_order, maxx,
                           x + SetMin(SeqRange(widths_order)), placed)

\* geometries -> custom pieces, skipping those with area <= AREA_EPS
MkCustoms(geoms, Mk(_)) ==
    LET kept == SelectSeq(geoms, LAMBDA g : AreaGeEps(Area(g)))
    IN [i \in 1..Len(kept) |-> Mk(kept[i])]

\* comp minus the rectangles of the placed blocks
RECURSIVE MinusBlocks(_, _)
MinusBlocks(g, blocks) ==
    IF blocks = <<>> THEN g
    ELSE MinusBlocks(DifferenceRect(g, PieceRect(Head(blocks))), Tail(blocks))

\* _pack_segment_with_order_adaptive (lines 259-338)
Core_pack_segment_with_order_adaptive(comp, y, stripe_top, widths_order, adaptive_height, offset) ==
    LET minx == Bounds(comp).x0
        maxx == Bounds(comp).x1
        actual_height == stripe_top - y
        effective_height == Min2(adaptive_height, actual_height)
        placed == AdaptiveLoop(comp, y, effective_height, widths_order, maxx,
                               minx + offset, <<>>)
        remaining == MinusBlocks(comp, placed)
    IN [placed |-> placed,
        custom |-> IF AreaGeEps(Area(remaining))
                   THEN MkCustoms(Parts(remaining), Core_mk_custom_default)
                   ELSE <<>>]

\* ------------------------------------------------------------------------
\* Custom post-processing (src/core/wall_builder.py 506-584,
\* src/main.py 1815-1879)
\* ------------------------------------------------------------------------
RECURSIVE Concat(_)
Concat(ss) == IF ss = <<>> THEN <<>> ELSE Head(ss) \o Concat(Tail(ss))

\* row_id = int(round(snap(c["y"]) / row_height))
RowId(c, row_height) == PyRound(snap(c.y), row_height)

\* the keys of the rows dict, in insertion order
RECURSIVE RowIds(_, _)
RowIds(customs, row_height) ==
    IF customs = <<>> THEN <<>>
    ELSE LET front == RowIds(SubSeq(customs, 1, Len(customs) - 1), row_height)
             rid == RowId(customs[Len(customs)], row_height)
         IN IF rid \in SeqRange(front) THEN front ELSE Append(front, rid)

\* merge_customs_row_aware, with the module's own _mk_custom as Mk
MergeRowAware(customs, row_height, Mk(_)) ==
    LET rids == RowIds(customs, row_height)
        Polys(rid) == LET cs == SelectSeq(customs, LAMBDA c : RowId(c, row_height) = rid)
                      IN [i \in 1..Len(cs) |-> cs[i].geometry]
    IN Concat([k \in 1..Len(rids) |-> MkCustoms(Parts(unary_union(Polys(rids[k]))), Mk)])

\* the vertical strips cut from an out-of-spec piece
RECURSIVE Strips(_, _, _)
Strips(poly, x0, max_w) ==
    LET b == Bounds(poly)
    IN IF ~(x0 < b.x1) THEN <<>>
       ELSE LET x1 == Min2(x0 + max_w, b.x1)
            IN <<Intersection(poly, box(x0, b.y0, x1, b.y1))>> \o Strips(poly, x1, max_w)

\* a test that keeps every piece as it is
InSpec_all(c, max_w, max_h) == c.width >= 0

\* a piece that split_out_of_spec keeps as it is
InSpec(c, max_w, max_h) ==
    c.width <= max_w + SCARTO_CUSTOM_MM /\ c.height <= max_h + SCARTO_CUSTOM_MM

\* split_out_of_spec, with the module's own _mk_custom as Mk
SplitOutOfSpec(customs, max_w, max_h, Mk(_)) ==
    Concat([k \in 1..Len(customs) |->
        IF InSpec(customs[k], max_w, max_h) THEN <<customs[k]>>
        ELSE IF ~AreaGeEps(Area(customs[k].geometry)) THEN <<>>
        ELSE MkCustoms(Strips(customs[k].geometry, Bounds(customs[k].geometry).x0, max_w), Mk)])

\* ctype assigned by validate_and_tag_customs of the core packer
Core_ctype(w, h) ==
    LET max_standard_width == SetMax(SeqRange(BLOCK_WIDTHS))
    IN IF w >= max_standard_width + SCARTO_CUSTOM_MM \/ h > 495 + SCARTO_CUSTOM_MM
       THEN "out_of_spec"
       ELSE IF Abs(h - 495) <= SCARTO_CUSTOM_MM /\ w <= max_standard_width + SCARTO_CUSTOM_MM
       THEN "1"
       ELSE "2"

\* ctype assigned by validate_and_tag_customs of the main packer
Main_ctype(w, h) ==
    IF w >= 413 + SCARTO_CUSTOM_MM \/ h > 495 + SCARTO_CUSTOM_MM
    THEN "out_of_spec"
    ELSE IF Abs(h - 495) <= SCARTO_CUSTOM_MM /\ w < 413 + SCARTO_CUSTOM_MM
    THEN "1"
    ELSE "2"

Tagged(c, ctype) == [k \in (DOMAIN c) \cup {"ctype"} |-> IF k = "ctype" THEN ctype ELSE c[k]]

Core_validate_and_tag_customs(custom) ==
    [i \in 1..Len(custom) |-> Tagged(custom[i], Core_ctype(custom[i].width, custom[i].height))]

Main_validate_and_tag_customs(custom) ==
    [i \in 1..Len(custom) |-> Tagged(custom[i], Main_ctype(custom[i].width, custom[i].height))]

Core_merge_customs_row_aware(customs, row_height) ==
    MergeRowAware(customs, row_height, Core_mk_custom_default)
Core_split_out_of_spec(customs, max_w) ==
    SplitOutOfSpec(customs, max_w, 495, Core_mk_custom_default)
Main_merge_customs_row_aware(customs, row_height) ==
    MergeRowAware(customs, row_height, Main_mk_custom)
Main_split_out_of_spec(customs, max_w) ==
    SplitOutOfSpec(customs, max_w, 495, Main_mk_custom)

\* ------------------------------------------------------------------------
\* Core packer: pack_wall (src/core/wall_builder.py 341-503)
\* ------------------------------------------------------------------------
\* a filter that also discards an aperture at either threshold
CoreApertureValid_strict(ap, wall_area) ==
    /\ ~(5 * Area(ap) >= 4 * wall_area)
    /\ ~(Area(ap) <= MIN_APERTURE_AREA)

\* the aperture filter (lines 366-383)
CoreApertureValid(ap, wall_area) ==
    /\ ~(5 * Area(ap) > 4 * wall_area)
    /\ ~(Area(ap) < MIN_APERTURE_AREA)

CoreKeepout(poly, ap_list) ==
    LET hole_polys == [i \in 1..Len(polygon_holes(poly)) |-> {polygon_holes(poly)[i]}]
        valid_apertures == SelectSeq(ap_list, LAMBDA ap : CoreApertureValid(ap, PolyArea(poly)))
    IN IF hole_polys # <<>> \/ valid_apertures # <<>>
       THEN unary_union(hole_polys \o valid_apertures)
       ELSE {}

\* int(total_height / block_height), total_height >= 0: int() truncates
\* towards zero
CoreCompleteRows(total_height, bh) ==
    IF bh > 0 THEN total_height \div bh ELSE -(total_height \div (-bh))

\* exceptions of the set-up: ap_area / wall_area with a wall of area 0
\* (line 371), total_height / block_height with block_height = 0 (line 407)
CoreSetupRaises(poly, ap_list, bh) ==
    (ap_list # <<>> /\ PolyArea(poly) = 0) \/ bh = 0

\* polygon.bounds (line 401) of what sanitize_polygon returns for a ring of
\* area 0: the ring's own bounds, or those of an empty polygon, with which
\* lines 401-407 raise; the geometry library decides
CoreSetupMayRaise(poly) == PolyArea(poly) = 0

\* the brick-pattern offset of a course (lines 437-444, 481-486)
CoreOffset(rw, ro, widths) ==
    IF rw % 2 = 0 THEN 0
    ELSE IF ro # None THEN ro[1] ELSE SetMin(SeqRange(widths))

\* (polygon ∩ stripe) \ keepout, as components
StripeComps(poly, ko, yy, stripe_top) ==
    LET stripe == box(poly.ext.x0, yy, poly.ext.x1, stripe_top)
    IN ensure_multipolygon(Difference(Intersection(PolyGeom(poly), stripe), ko))

LiveComps(poly, ko, yy, stripe_top) ==
    SelectSeq(StripeComps(poly, ko, yy, stripe_top), LAMBDA c : AreaGeEps(Area(c)))

\* min(block_widths) of an empty list (line 443) in a full course
CoreFullCourseRaises(poly, ko, widths, bh, ro, yy, rw) ==
    /\ rw % 2 = 1
    /\ ro = None
    /\ widths = <<>>
    /\ LiveComps(poly, ko, yy, yy + bh) # <<>>

\* min of an empty list in the adaptive course: the offset (line 486) or
\* the step x += min(widths_order) of the placement loop (line 318)
CoreAdaptiveRaises(poly, ko, widths, bh, ro, yy, rw, rem) ==
    /\ rem >= MIN_ADAPTIVE_HEIGHT
    /\ widths = <<>>
    /\ LET comps == LiveComps(poly, ko, yy, yy + Min2(rem, bh))
       IN \E i \in 1..Len(comps) :
             \/ (rw % 2 = 1 /\ ro = None)
             \/ Bounds(comps[i]).x0 + (IF rw % 2 = 0 \/ ro = None THEN 0 ELSE ro[1])
                    < Bounds(comps[i]).x1

\* results of the components of one course, concatenated in component order
CollectComps(comps, Pack(_)) ==
    LET live == SelectSeq(comps, LAMBDA c : AreaGeEps(Area(c)))
    IN [placed |-> Concat([i \in 1..Len(live) |-> Pack(live[i]).placed]),
        custom |-> Concat([i \in 1..Len(live) |-> Pack(live[i]).custom])]

\* one pass of the full-course loop (lines 416-458)
CoreFullCourseResult(poly, ko, widths, bh, ro, yy, rw) ==
    LET stripe_top == yy + bh
        Pack(comp) == Core_pack_segment_with_order(comp, yy, stripe_top,
                          SortedDesc(widths), CoreOffset(rw, ro, widths))
    IN CollectComps(StripeComps(poly, ko, yy, stripe_top), Pack)

\* the adaptive course (lines 463-497)
CoreAdaptiveResult(poly, ko, widths, bh, ro, yy, rw, rem) ==
    LET adaptive_height == Min2(rem, bh)
        stripe_top == yy + adaptive_height
        Pack(comp) == Core_pack_segment_with_order_adaptive(comp, yy, stripe_top,
                          SortedDesc(widths), adaptive_height, CoreOffset(rw, ro, widths))
    IN CollectComps(StripeComps(poly, ko, yy, stripe_top), Pack)

\* lines 501-503
CorePostProcess(customs) ==
    Core_validate_and_tag_customs(
        Core_split_out_of_spec(
            Core_merge_customs_row_aware(customs, BLOCK_HEIGHT), SPLIT_MAX_WIDTH_MM))

\* ------------------------------------------------------------------------
\* Main packer: segment packing with order trials (src/main.py 1284-1414)
\* ------------------------------------------------------------------------
\* math.isclose(intersec.area, candidate.area, rel_tol=1e-9), on integer
\* areas below 10^9
\* placed_all.extend(placed_row) (lines 454-455, 496-497; src/main.py
\* 1473-1474)
Extend_front(list, more) == more \o list
Extend(list, more) == list \o more

MainStdFits(intersec_area, candidate_area) == intersec_area = candidate_area

\* best_score = (10**9, float("inf")); the area component stands for infinity
BIG_COUNT == 1000000000
INF_AREA == 2147483647

\* _score_solution: (number of custom pieces, their total area)
score_solution(placed, custom) == <<Len(custom), PiecesArea(custom)>>

\* tuple comparison a < b
ScoreLess(a, b) == a[1] < b[1] \/ (a[1] = b[1] /\ a[2] < b[2])

\* a fill that places and emits nothing
try_fill_none(comp, y, stripe_top, widths, cursor, acc) == acc

\* _try_fill (lines 1292-1322)
RECURSIVE try_fill(_, _, _, _, _, _)
try_fill(comp, y, stripe_top, widths, cursor, acc) ==
    LET seg_maxx == Bounds(comp).x1
    IN IF ~(cursor < seg_maxx) THEN acc
       ELSE
         LET Cand(i) == box(cursor, y, cursor + widths[i], stripe_top)
             Usable(i) == /\ cursor + widths[i] <= seg_maxx
                          /\ AreaGeEps(Area(Intersection(comp, Cand(i))))
             idx == {i \in 1..Len(widths) : Usable(i)}
         IN IF idx # {}
            THEN LET i == SetMin(idx)
                     intersec == Intersection(comp, Cand(i))
                 IN try_fill(comp, y, stripe_top, widths, snap(cursor + widths[i]),
                        IF MainStdFits(Area(intersec), RectArea(Cand(i)))
                        THEN [acc EXCEPT !.placed =
                                 Append(@, mk_std(cursor, y, widths[i], BLOCK_HEIGHT))]
                        ELSE [acc EXCEPT !.custom = Append(@, Main_mk_custom(intersec))])
            ELSE LET remaining == Intersection(comp, box(cursor, y, seg_maxx, stripe_top))
                 IN IF AreaGeEps(Area(remaining))
                    THEN [acc EXCEPT !.custom = Append(@, Main_mk_custom(remaining))]
                    ELSE acc

\* the placement loop of _pack_segment_with_order (lines 1350-1399); the
\* field loops records a pass that neither moves the cursor nor leaves the
\* loop, the field reverts the backtracks of lines 1372-1375: the cursor at
\* which no width fitted, the cursor restored and the number of pieces cut
\* from the two lists
RECURSIVE MainGreedy(_, _, _, _, _, _, _)
MainGreedy(comp, y, stripe_top, widths_order, seg_maxx, cursor, acc) ==
    IF ~(cursor < seg_maxx) THEN acc
    ELSE
      LET history_last == <<cursor, Len(acc.placed), Len(acc.custom)>>
          Cand(i) == box(cursor, y, cursor + widths_order[i], stripe_top)
          Usable(i) == /\ cursor + widths_order[i] <= seg_maxx
                       /\ AreaGeEps(Area(Intersection(comp, Cand(i))))
          idx == {i \in 1..Len(widths_order) : Usable(i)}
      IN IF idx # {}
         THEN LET i == SetMin(idx)
                  intersec == Intersection(comp, Cand(i))
              IN MainGreedy(comp, y, stripe_top, widths_order, seg_maxx,
                     snap(cursor + widths_order[i]),
                     IF MainStdFits(Area(intersec), RectArea(Cand(i)))
                     THEN [acc EXCEPT !.placed =
                              Append(@, mk_std(cursor, y, widths_order[i], BLOCK_HEIGHT))]
                     ELSE [acc EXCEPT !.custom = Append(@, Main_mk_custom(intersec))])
         ELSE
           LET remaining == Intersection(comp, box(cursor, y, seg_maxx, stripe_top))
               rem_width == seg_maxx - cursor
           IN IF rem_width < MICRO_REST_MM
              THEN
                LET cursor_prev == history_last[1]
                    reverts == Append(acc.reverts,
                                      [at |-> cursor, cursor_prev |-> cursor_prev,
                                       cut |-> (Len(acc.placed) - history_last[2])
                                                   + (Len(acc.custom) - history_last[3])])
                    placed == SubSeq(acc.placed, 1, history_last[2])
                    custom == SubSeq(acc.custom, 1, history_last[3])
                    alt_order == <<413, 826, 1239>>
                    alt == try_fill(comp, y, stripe_top, alt_order, cursor_prev,
                                    [placed |-> <<>>, custom |-> <<>>])
                    baseline_custom_area ==
                        IF AreaGeEps(Area(remaining)) THEN Area(remaining) ELSE 0
                    score_backtrack ==
                        score_solution(placed \o alt.placed, custom \o alt.custom)
                    score_baseline ==
                        <<Len(custom) + (IF baseline_custom_area > 0 THEN 1 ELSE 0),
                          baseline_custom_area>>
                    taken == [placed |-> placed \o alt.placed,
                              custom |-> custom \o alt.custom,
                              loops |-> acc.loops, reverts |-> reverts]
                IN IF ScoreLess(score_backtrack, score_baseline)
                   THEN IF alt.placed # <<>>
                        THEN LET last == alt.placed[Len(alt.placed)]
                             IN MainGreedy(comp, y, stripe_top, widths_order, seg_maxx,
                                           snap(last.x + last.width), taken)
                        ELSE IF alt.custom # <<>> THEN taken
                        ELSE [taken EXCEPT !.loops = TRUE]
                   ELSE IF AreaGeEps(baseline_custom_area)
                        THEN [placed |-> placed,
                              custom |-> Append(custom, Main_mk_custom(remaining)),
                              loops |-> acc.loops, reverts |-> reverts]
                        ELSE [placed |-> placed, custom |-> custom,
                              loops |-> acc.loops, reverts |-> reverts]
              ELSE IF AreaGeEps(Area(remaining))
                   THEN [acc EXCEPT !.custom = Append(@, Main_mk_custom(remaining))]
                   ELSE acc

\* _pack_segment_with_order of the main packer (lines 1324-1401)
Main_pack_segment_with_order(comp, y0, stripe_top0, widths_order, offset) ==
    LET seg_minx == snap(Bounds(comp).x0)
        seg_maxx == snap(Bounds(comp).x1)
        y == snap(y0)
        stripe_top == snap(stripe_top0)
        candidate == box(seg_minx, y, seg_minx + offset, stripe_top)
        intersec == Intersection(comp, candidate)
        slot == offset # 0 /\ seg_minx + offset <= seg_maxx /\ AreaGeEps(Area(intersec))
        acc0 == IF ~slot THEN [placed |-> <<>>, custom |-> <<>>,
                               loops |-> FALSE, reverts |-> <<>>]
                ELSE IF MainStdFits(Area(intersec), RectArea(candidate))
                     THEN [placed |-> <<mk_std(seg_minx, y, offset, BLOCK_HEIGHT)>>,
                           custom |-> <<>>, loops |-> FALSE, reverts |-> <<>>]
                     ELSE [placed |-> <<>>, custom |-> <<Main_mk_custom(intersec)>>,
                           loops |-> FALSE, reverts |-> <<>>]
        cursor0 == IF slot THEN snap(seg_minx + offset) ELSE seg_minx
    IN MainGreedy(comp, y, stripe_top, widths_order, seg_maxx, cursor0, acc0)

Better_or_equal(score, best_score) == ~ScoreLess(best_score, score)

\* the comparison that replaces the best solution so far (lines 1411, 1468)
Better(score, best_score) == ScoreLess(score, best_score)

\* one pass of a best-of loop: keep the better of best and the new try
KeepBest(best, try) ==
    LET score == score_solution(try.placed, try.custom)
    IN IF Better(score, best.score)
       THEN [placed |-> try.placed, custom |-> try.custom, score |-> score]
       ELSE best

NoBest == [placed |-> <<>>, custom |-> <<>>, score |-> <<BIG_COUNT, INF_AREA>>]

\* _pack_segment (lines 1403-1414): the best over BLOCK_ORDERS, the widths
\* argument is not used
RECURSIVE BestOverOrders(_, _, _, _, _, _)
BestOverOrders(comp, y, stripe_top, offset, k, best) ==
    IF k > Len(BLOCK_ORDERS) THEN best
    ELSE BestOverOrders(comp, y, stripe_top, offset, k + 1,
             KeepBest(best, Main_pack_segment_with_order(comp, y, stripe_top,
                                                         BLOCK_ORDERS[k], offset)))

Main_pack_segment(comp, y, stripe_top, widths, offset) ==
    BestOverOrders(comp, y, stripe_top, offset, 1, NoBest)

\* ------------------------------------------------------------------------
\* Main packer: pack_wall (src/main.py 1416-1480)
\* ------------------------------------------------------------------------
\* u.buffer(KEEP_OUT_MM) of a rectangle.  The rounded corners of the buffer
\* are not represented: the apertures given to the main packer reach from
\* wall edge to wall edge, so that the corners fall outside the wall.
Buffer(g, d) == {box(a.x0 - d, a.y0 - d, a.x1 + d, a.y1 + d) : a \in g}

\* lines 1427-1432: holes and apertures, unfiltered, buffered
MainKeepout(poly, ap_list) ==
    LET hole_polys == [i \in 1..Len(polygon_holes(poly)) |-> {polygon_holes(poly)[i]}]
    IN IF hole_polys # <<>> \/ ap_list # <<>>
       THEN Buffer(unary_union(hole_polys \o ap_list), KEEP_OUT_MM)
       ELSE {}

MainOffsetCandidates_none(rw, ro) == <<0>>

\* lines 1455-1459
MainOffsetCandidates(rw, ro) ==
    IF rw % 2 = 0 THEN <<0>>
    ELSE (IF ro # None THEN <<ro[1]>> ELSE <<>>) \o <<413>>

RECURSIVE BestOverOffsets(_, _, _, _, _, _)
BestOverOffsets(comp, y, stripe_top, offs, k, best) ==
    IF k > Len(offs) THEN best
    ELSE BestOverOffsets(comp, y, stripe_top, offs, k + 1,
             KeepBest(best, Main_pack_segment(comp, y, stripe_top, BLOCK_WIDTHS, offs[k])))

\* one pass of the course loop (lines 1441-1476)
MainCourseResult(poly, ko, bh, ro, yy, rw) ==
    LET stripe_top == Min2(yy + bh, poly.ext.y1)
        Pack(comp) == BestOverOffsets(comp, yy, stripe_top,
                                      MainOffsetCandidates(rw, ro), 1, NoBest)
    IN CollectComps(StripeComps(poly, ko, yy, stripe_top), Pack)

\* lines 1478-1480
MainPostProcess(customs) ==
    Main_validate_and_tag_customs(
        Main_split_out_of_spec(
            Main_merge_customs_row_aware(customs, BLOCK_HEIGHT), SPLIT_MAX_WIDTH_MM))

\* ------------------------------------------------------------------------
\* Labelling (src/main.py 1884-1904)
\* ------------------------------------------------------------------------
Letters == {"A", "B", "C"}

\* str(n) for n >= 0, as a list of characters
RECURSIVE Digits(_)
Digits(n) ==
    LET DigitChars == <<"0", "1", "2", "3", "4", "5", "6", "7", "8", "9">>
    IN IF n < 10 THEN <<DigitChars[n + 1]>>
       ELSE Digits(n \div 10) \o <<DigitChars[(n % 10) + 1]>>

\* SIZE_TO_LETTER.get(width, "X") with the nearest-width fallback: the first
\* entry, in dictionary order, at the smallest distance (lines 1889-1892)
StdLetter(width) ==
    IF width \in DOMAIN SIZE_TO_LETTER THEN SIZE_TO_LETTER[width]
    ELSE LET keys == BLOCK_WIDTHS
             dist(k) == Abs(width - keys[k])
             k0 == CHOOSE k \in 1..Len(keys) :
                       /\ \A j \in 1..Len(keys) : dist(k) <= dist(j)
                       /\ \A j \in 1..(k - 1) : dist(j) > dist(k)
         IN SIZE_TO_LETTER[keys[k0]]

\* the counter a block is counted under: std_counters[letter] (line 1893)
StdCounterKey_width(width) == width
StdCounterKey(width) == StdLetter(width)

\* f"{letter}{std_counters[letter]}" for the i-th block
StdLabel(placed, i, start) ==
    LET letter == StdLetter(placed[i].width)
        n == start[letter] +
             Cardinality({j \in 1..i : StdCounterKey(placed[j].width)
                                        = StdCounterKey(placed[i].width)})
    IN <<letter>> \o Digits(n)

StdLabels(placed, start) == [i \in 1..Len(placed) |-> StdLabel(placed, i, start)]

StdCountersAfter(placed, start) ==
    [l \in Letters |->
        start[l] + Cardinality({j \in 1..Len(placed) : StdLetter(placed[j].width) = l})]

\* c.get("ctype", 2); the code is the ctype when it is 1 or 2 and X otherwise
CustomCode(c) ==
    LET ctype == IF "ctype" \in DOMAIN c THEN c.ctype ELSE "2"
    IN IF ctype \in {"1", "2"} THEN ctype ELSE "X"

\* f"CU{code}({counts[code]})" for the i-th custom piece
CustomLabel(custom, i) ==
    LET code == CustomCode(custom[i])
        n == Cardinality({j \in 1..i : CustomCode(custom[j]) = code})
    IN <<"C", "U", code, "(">> \o Digits(n) \o <<")">>

CustomLabels(custom) == [i \in 1..Len(custom) |-> CustomLabel(custom, i)]

CountsAfter(custom) ==
    [code \in {CustomCode(custom[j]) : j \in 1..Len(custom)} |->
        Cardinality({j \in 1..Len(custom) : CustomCode(custom[j]) = code})]

CoreAdaptiveNeeded_strict(rem) == rem > MIN_ADAPTIVE_HEIGHT

\* a further course is packed when the leftover height reaches the minimum
\* (line 463)
CoreAdaptiveNeeded(rem) == rem >= MIN_ADAPTIVE_HEIGHT

\* ------------------------------------------------------------------------
\* State
\* ------------------------------------------------------------------------
VARIABLES
    pc,               \* position of the running call
    polygon,          \* pack_wall arguments
    apertures,
    block_widths,
    block_height,
    row_offset,
    keepout,          \* pack_wall locals
    complete_rows,
    remaining_space,
    y,
    row,
    placed_all,
    custom_all,
    log,              \* the course lines printed by the core pack_wall
    std_labels,       \* create_block_labels: results and counters
    custom_labels,
    std_counters,
    counts,
    seg,              \* _pack_segment: arguments and loop state
    order_k,
    best,
    tried,
    runs              \* the completed runs: arguments, plan and labels

vars == <<pc, polygon, apertures, block_widths, block_height, row_offset, keepout,
          complete_rows, remaining_space, y, row, placed_all, custom_all, log,
          std_labels, custom_labels, std_counters, counts,
          seg, order_k, best, tried, runs>>

labelVars == <<std_labels, custom_labels, std_counters, counts>>
segVars == <<seg, order_k, best, tried>>
packVars == <<keepout, complete_rows, remaining_space, y, row, placed_all, custom_all, log>>

args == <<polygon, apertures, block_widths, block_height, row_offset>>

\* the counters as the previous call of create_block_labels left them
std_counters_kept == std_counters

\* std_counters = {"A": 0, "B": 0, "C": 0} (line 1885)
std_counters_init == [l \in Letters |-> 0]

\* ------------------------------------------------------------------------
\* Inputs of the model
\* ------------------------------------------------------------------------
MaxUnits == 3
MaxCourses == 2
Tails == {0, 10, 100}
Residuals == {0, 149, 150, 200}

WallWidths == {413 * k + t : k \in 1..MaxUnits, t \in Tails}
WallHeights == {495 * c + r : c \in 1..MaxCourses, r \in Residuals}

\* a small window, a door standing on the floor, a hole of the wall polygon
Window == box(100, 100, 200, 200)
Door == box(200, 0, 400, 600)
Hole == box(150, 150, 350, 600)
\* a pillar through the whole height of the wall
Pillar == box(413, 0, 513, 1700)

CoreWalls ==
    {Polygon(box(0, 0, w, h), hs) : w \in WallWidths, h \in WallHeights, hs \in {<<>>, <<Hole>>}}
\* a window towards the right end of a wall of three units
SideWindow == box(900, 100, 1100, 400)
CoreApertureLists == {<<>>, <<{Window}>>, <<{Door}>>, <<{Pillar}>>, <<{SideWindow}>>}
\* an opening over the whole width of the wall, from the floor up to 300
LowOpening(poly) == box(poly.ext.x0, poly.ext.y0, poly.ext.x1, poly.ext.y0 + 300)
CoreWidthLists == {BLOCK_WIDTHS, <<413, 826>>}
CoreBlockHeights == {BLOCK_HEIGHT, 300}
RowOffsets == {None, Some(826), Some(413)}

\* variables that a specification does not use
LabelsIdle ==
    /\ std_labels = <<>>
    /\ custom_labels = <<>>
    /\ std_counters = [l \in Letters |-> 0]
    /\ counts = <<>>
SegIdle ==
    /\ seg = <<>>
    /\ order_k = 0
    /\ best = NoBest
    /\ tried = <<>>
PackIdle ==
    /\ keepout = {}
    /\ complete_rows = 0
    /\ remaining_space = 0
    /\ y = 0
    /\ row = 0
    /\ log = <<>>
ArgsIdle ==
    /\ polygon = Polygon(box(0, 0, 0, 0), <<>>)
    /\ apertures = <<>>
    /\ block_widths = BLOCK_WIDTHS
    /\ block_height = BLOCK_HEIGHT
    /\ row_offset = None

\* ------------------------------------------------------------------------
\* Core packer: the call of pack_wall, course by course
\* ------------------------------------------------------------------------
Init ==
    /\ pc = "pack_wall"
    /\ polygon \in CoreWalls
    /\ apertures \in CoreApertureLists \cup {<<{LowOpening(polygon)}>>}
    /\ (polygon.holes = <<>> \/ apertures = <<>>)
    /\ block_widths \in CoreWidthLists
    /\ block_height \in CoreBlockHeights
    /\ row_offset \in RowOffsets
    /\ PackIdle
    /\ placed_all = <<>>
    /\ custom_all = <<>>
    /\ LabelsIdle
    /\ SegIdle
    /\ runs = <<>>

\* lines 358-413: aperture filter, keep-out, course arithmetic
CoreSetup ==
    /\ pc = "pack_wall"
    /\ ~CoreSetupRaises(polygon, apertures, block_height)
    /\ keepout' = CoreKeepout(polygon, apertures)
    /\ LET total_height == polygon.ext.y1 - polygon.ext.y0
           rows == CoreCompleteRows(total_height, block_height)
       IN /\ complete_rows' = rows
          /\ remaining_space' = total_height - rows * block_height
    /\ y' = polygon.ext.y0
    /\ row' = 0
    /\ pc' = "rows"
    /\ UNCHANGED <<args, placed_all, custom_all, log, labelVars, segVars, runs>>

\* lines 416-458: one full course
CoreFullCourse ==
    /\ pc = "rows"
    /\ row < complete_rows
    /\ ~CoreFullCourseRaises(polygon, keepout, block_widths, block_height, row_offset, y, row)
    /\ LET res == CoreFullCourseResult(polygon, keepout, block_widths, block_height,
                                       row_offset, y, row)
       IN /\ placed_all' = Extend(placed_all, res.placed)
          /\ custom_all' = Extend(custom_all, res.custom)
    /\ log' = Append(log, [kind |-> "full", row |-> row, y |-> y, top |-> y + block_height])
    /\ y' = snap(y + block_height)
    /\ row' = row + 1
    /\ UNCHANGED <<pc, args, keepout, complete_rows, remaining_space, labelVars, segVars, runs>>

\* lines 462-499: the adaptive course, or its omission
CoreAdaptiveCourse ==
    /\ pc = "rows"
    /\ ~(row < complete_rows)
    /\ ~CoreAdaptiveRaises(polygon, keepout, block_widths, block_height, row_offset, y, row,
                           remaining_space)
    /\ IF CoreAdaptiveNeeded(remaining_space)
       THEN LET res == CoreAdaptiveResult(polygon, keepout, block_widths, block_height,
                                          row_offset, y, row, remaining_space)
            IN /\ placed_all' = Extend(placed_all, res.placed)
               /\ custom_all' = Extend(custom_all, res.custom)
               /\ log' = Append(log, [kind |-> "adaptive", row |-> row, y |-> y,
                                      top |-> y + Min2(remaining_space, block_height)])
       ELSE UNCHANGED <<placed_all, custom_all, log>>
    /\ pc' = "post"
    /\ UNCHANGED <<args, keepout, complete_rows, remaining_space, y, row, labelVars, segVars, runs>>

\* lines 501-503: coalescing, splitting, tagging; the call returns
CorePost ==
    /\ pc = "post"
    /\ custom_all' = CorePostProcess(custom_all)
    /\ pc' = "done"
    /\ UNCHANGED <<args, keepout, complete_rows, remaining_space, y, row, placed_all, log, labelVars, segVars, runs>>

Next == CoreSetup \/ CoreFullCourse \/ CoreAdaptiveCourse \/ CorePost

Spec == Init /\ [][Next]_vars

\* ------------------------------------------------------------------------
\* Core packer: calls with a faulty configuration or a degenerate wall
\* ------------------------------------------------------------------------
EdgeWalls ==
    {Polygon(box(0, 0, w, h), <<>>) : w \in {0, 413, 513}, h \in {0, 200, 495, 695, 990}}
        \cup {Polygon(box(0, 0, w, h), <<Hole>>) : w \in {413, 513}, h \in {695, 990}}

\* apertures at the thresholds of the filter: area 1000 and area 999, four
\* fifths of the bounding box of the wall and one row of units more
Exact1000 == box(0, 0, 40, 25)
Below1000 == box(0, 0, 37, 27)
FourFifths(poly) ==
    box(poly.ext.x0, poly.ext.y0, poly.ext.x1,
        poly.ext.y0 + (4 * (poly.ext.y1 - poly.ext.y0)) \div 5)
OverFourFifths(poly) ==
    box(poly.ext.x0, poly.ext.y0, poly.ext.x1,
        poly.ext.y0 + (4 * (poly.ext.y1 - poly.ext.y0)) \div 5 + 1)
EdgeApertureLists(poly) ==
    {<<>>, <<{Window}>>, <<{Exact1000}, {FourFifths(poly)}>>,
     <<{Below1000}, {OverFourFifths(poly)}>>, <<{Below1000}, {Window}>>}

EdgeInit ==
    /\ pc = "pack_wall"
    /\ polygon \in EdgeWalls
    /\ apertures \in EdgeApertureLists(polygon)
    /\ block_widths \in {<<>>, BLOCK_WIDTHS}
    /\ block_height \in {0, -BLOCK_HEIGHT, BLOCK_HEIGHT}
    /\ row_offset \in {None, Some(826)}
    /\ PackIdle
    /\ placed_all = <<>>
    /\ custom_all = <<>>
    /\ LabelsIdle
    /\ SegIdle
    /\ runs = <<>>

\* an exception leaves pack_wall: nothing is returned
Raised ==
    /\ pc' = "raised"
    /\ placed_all' = <<>>
    /\ custom_all' = <<>>
    /\ UNCHANGED <<args, keepout, complete_rows, remaining_space, y, row, log,
                   labelVars, segVars, runs>>

CoreSetupRaise ==
    /\ pc = "pack_wall"
    /\ CoreSetupRaises(polygon, apertures, block_height) \/ CoreSetupMayRaise(polygon)
    /\ Raised

CoreFullCourseRaise ==
    /\ pc = "rows"
    /\ row < complete_rows
    /\ CoreFullCourseRaises(polygon, keepout, block_widths, block_height, row_offset, y, row)
    /\ Raised

CoreAdaptiveRaise ==
    /\ pc = "rows"
    /\ ~(row < complete_rows)
    /\ CoreAdaptiveRaises(polygon, keepout, block_widths, block_height, row_offset, y, row,
                          remaining_space)
    /\ Raised

EdgeNext ==
    \/ CoreSetup \/ CoreFullCourse \/ CoreAdaptiveCourse \/ CorePost
    \/ CoreSetupRaise \/ CoreFullCourseRaise \/ CoreAdaptiveRaise

SpecEdge == EdgeInit /\ [][EdgeNext]_vars

\* ------------------------------------------------------------------------
\* Main packer: the call of pack_wall, course by course, then labelling
\* ------------------------------------------------------------------------
MainMaxUnits == 6

MainWalls ==
    {Polygon(box(0, 0, 413 * k + t, h), <<>>) :
        k \in 1..MainMaxUnits, t \in Tails, h \in WallHeights}

\* a door through the whole height of the wall
FullDoor(poly) == box(200, poly.ext.y0, 400, poly.ext.y1)
\* an aperture over the whole width and the lower nine tenths of the wall
BigAperture(poly) ==
    box(poly.ext.x0, poly.ext.y0, poly.ext.x1,
        poly.ext.y0 + (9 * (poly.ext.y1 - poly.ext.y0)) \div 10)

MainApertureLists(poly) ==
    {<<>>, <<{FullDoor(poly)}>>}
        \cup (IF (poly.ext.y1 - poly.ext.y0) % 10 = 0 THEN {<<{BigAperture(poly)}>>} ELSE {})

MainWidthLists == CoreWidthLists \cup {<<1239, 826>>}

MainInit ==
    /\ pc = "pack_wall"
    /\ polygon \in MainWalls
    /\ apertures \in MainApertureLists(polygon)
    /\ block_widths \in MainWidthLists
    /\ block_height \in CoreBlockHeights
    /\ row_offset \in RowOffsets
    /\ PackIdle
    /\ placed_all = <<>>
    /\ custom_all = <<>>
    /\ LabelsIdle
    /\ SegIdle
    /\ runs = <<>>

\* lines 1424-1439
MainSetup ==
    /\ pc = "pack_wall"
    /\ keepout' = MainKeepout(polygon, apertures)
    /\ placed_all' = <<>>
    /\ custom_all' = <<>>
    /\ y' = polygon.ext.y0
    /\ row' = 0
    /\ pc' = "rows"
    /\ UNCHANGED <<args, complete_rows, remaining_space, log, labelVars, segVars, runs>>

\* lines 1441-1476: one course
MainCourse ==
    /\ pc = "rows"
    /\ y < polygon.ext.y1
    /\ LET res == MainCourseResult(polygon, keepout, block_height, row_offset, y, row)
       IN /\ placed_all' = Extend(placed_all, res.placed)
          /\ custom_all' = Extend(custom_all, res.custom)
    /\ y' = snap(y + block_height)
    /\ row' = row + 1
    /\ UNCHANGED <<pc, args, keepout, complete_rows, remaining_space, log,
                   labelVars, segVars, runs>>

\* lines 1478-1480: coalescing, splitting, tagging; the call returns
MainPost ==
    /\ pc = "rows"
    /\ ~(y < polygon.ext.y1)
    /\ custom_all' = MainPostProcess(custom_all)
    /\ pc' = "done"
    /\ UNCHANGED <<args, keepout, complete_rows, remaining_space, y, row, placed_all, log,
                   labelVars, segVars, runs>>

\* create_block_labels (lines 1884-1904) on the returned plan
CreateBlockLabels ==
    /\ pc = "done"
    /\ std_labels' = StdLabels(placed_all, std_counters_init)
    /\ std_counters' = StdCountersAfter(placed_all, std_counters_init)
    /\ custom_labels' = CustomLabels(custom_all)
    /\ counts' = CountsAfter(custom_all)
    /\ pc' = "labelled"
    /\ UNCHANGED <<args, packVars, segVars, runs>>

\* pack_wall as a function of its arguments: the course loop from course rw
\* at height yy on, then the post-processing (lines 1441-1480)
RECURSIVE MainCourses(_, _, _, _, _, _, _)
MainCourses(poly, ko, bh, ro, yy, rw, acc) ==
    IF ~(yy < poly.ext.y1) THEN acc
    ELSE LET res == MainCourseResult(poly, ko, bh, ro, yy, rw)
         IN MainCourses(poly, ko, bh, ro, snap(yy + bh), rw + 1,
                        [placed |-> acc.placed \o res.placed,
                         custom |-> acc.custom \o res.custom])

Main_pack_wall(poly, ap_list, bh, ro) ==
    LET raw == MainCourses(poly, MainKeepout(poly, ap_list), bh, ro, poly.ext.y0, 0,
                           [placed |-> <<>>, custom |-> <<>>])
    IN [placed |-> raw.placed, custom |-> MainPostProcess(raw.custom)]

MainNext == MainSetup \/ MainCourse \/ MainPost \/ CreateBlockLabels

SpecMain == MainInit /\ [][MainNext]_vars

\* the same call under fairness: it runs on its own thread of control, so a
\* step that can be taken is taken
TermMaxUnits == 2
TermWalls ==
    {Polygon(box(0, 0, 413 * k + t, h), <<>>) :
        k \in 1..TermMaxUnits, t \in Tails, h \in {495, 990, 1190}}

TermInit ==
    /\ pc = "pack_wall"
    /\ polygon \in TermWalls
    /\ apertures \in MainApertureLists(polygon)
    /\ block_widths = BLOCK_WIDTHS
    /\ block_height \in CoreBlockHeights
    /\ row_offset \in RowOffsets
    /\ PackIdle
    /\ placed_all = <<>>
    /\ custom_all = <<>>
    /\ LabelsIdle
    /\ SegIdle
    /\ runs = <<>>

\* weak fairness of the steps of the call; for the course loop, whose steps
\* are enabled exactly when pc = "rows", weak fairness is written out as
\* "infinitely often not enabled, or infinitely often taken"
SpecMainFair ==
    /\ TermInit
    /\ [][MainNext]_vars
    /\ WF_vars(MainSetup)
    /\ WF_vars(CreateBlockLabels)
    /\ ([]<>(pc # "rows") \/ []<><<MainCourse \/ MainPost>>_vars)

\* ------------------------------------------------------------------------
\* Post-packing optimisation: opt_pass and its phases (src/main.py 1485-1810)
\* ------------------------------------------------------------------------
\* the keys of a defaultdict(list) in insertion order, from the key of each
\* appended item
RECURSIVE OrderedKeys(_)
OrderedKeys(ks) ==
    IF ks = <<>> THEN <<>>
    ELSE LET front == OrderedKeys(SubSeq(ks, 1, Len(ks) - 1))
         IN IF ks[Len(ks)] \in SeqRange(front) THEN front ELSE Append(front, ks[Len(ks)])

\* list.sort(key=...): stable, ascending; keys[i] is the key of items[i]
RECURSIVE StableSortBy(_, _)
StableSortBy(items, keys) ==
    IF items = <<>> THEN <<>>
    ELSE LET m == SetMin(SeqRange(keys))
             i == CHOOSE j \in 1..Len(keys) : keys[j] = m /\ \A k \in 1..(j - 1) : keys[k] # m
             Drop(s) == [k \in 1..(Len(s) - 1) |-> IF k < i THEN s[k] ELSE s[k + 1]]
         IN <<items[i]>> \o StableSortBy(Drop(items), Drop(keys))

\* _merge_custom_group (lines 1635-1657)
merge_custom_group(group) ==
    IF Len(group) = 1 THEN group[1]
    ELSE LET min_x == SetMin({c.x : c \in SeqRange(group)})
             max_x == SetMax({c.x + c.width : c \in SeqRange(group)})
             min_y == SetMin({c.y : c \in SeqRange(group)})
             max_y == SetMax({c.y + c.height : c \in SeqRange(group)})
         IN [type |-> <<"custom">>, width |-> snap(max_x - min_x),
             height |-> snap(max_y - min_y), x |-> snap(min_x), y |-> snap(min_y),
             geometry |-> unary_union([i \in 1..Len(group) |-> group[i].geometry]),
             ctype |-> "2"]

\* _merge_custom_group_vertical (lines 1660-1682)
merge_custom_group_vertical(group) ==
    IF Len(group) = 1 THEN group[1]
    ELSE LET min_x == SetMin({c.x : c \in SeqRange(group)})
             max_x == SetMax({c.x + c.width : c \in SeqRange(group)})
             min_y == SetMin({c.y : c \in SeqRange(group)})
             max_y == SetMax({c.y + c.height : c \in SeqRange(group)})
         IN [type |-> <<"custom">>, width |-> snap(max_x - min_x),
             height |-> snap(max_y - min_y), x |-> snap(min_x), y |-> snap(min_y),
             geometry |-> unary_union([i \in 1..Len(group) |-> group[i].geometry]),
             ctype |-> "2"]

\* row_y = int(round(c["y"] / BLOCK_HEIGHT)) * BLOCK_HEIGHT (line 1535)
HRowY(c) == PyRound(c.y, BLOCK_HEIGHT) * BLOCK_HEIGHT

\* lines 1550-1555
HAdjacent(prev, curr) ==
    /\ curr.x - (prev.x + prev.width) < 10
    /\ Abs(prev.y - curr.y) < 5
    /\ Abs(prev.height - curr.height) < 5

\* the loop over one sorted row and the closing of its last group
\* (lines 1543-1572)
RECURSIVE HGroups(_, _, _)
HGroups(row_customs, i, current_group) ==
    IF i > Len(row_customs) THEN <<merge_custom_group(current_group)>>
    ELSE IF HAdjacent(current_group[Len(current_group)], row_customs[i])
    THEN HGroups(row_customs, i + 1, Append(current_group, row_customs[i]))
    ELSE <<merge_custom_group(current_group)>>
             \o HGroups(row_customs, i + 1, <<row_customs[i]>>)

\* _merge_adjacent_customs_horizontal (lines 1527-1574)
merge_adjacent_customs_horizontal(customs) ==
    IF Len(customs) < 2 THEN customs
    ELSE LET keys == OrderedKeys([i \in 1..Len(customs) |-> HRowY(customs[i])])
             Row(k) == SelectSeq(customs, LAMBDA c : HRowY(c) = k)
             Sorted(k) == StableSortBy(Row(k), [i \in 1..Len(Row(k)) |-> Row(k)[i].x])
         IN Concat([n \in 1..Len(keys) |->
                       HGroups(Sorted(keys[n]), 2, <<Sorted(keys[n])[1]>>)])

\* col_x = int(round(c["x"] / 10)) * 10 (line 1585)
VColX(c) == PyRound(c.x, 10) * 10

\* lines 1608-1614
VAdjacent(last_in_group, candidate) ==
    /\ candidate.y - (last_in_group.y + last_in_group.height) < 10
    /\ Abs(last_in_group.x - candidate.x) < 5
    /\ Abs(last_in_group.width - candidate.width) < 10

\* the inner loop over the later pieces of a column (lines 1603-1618);
\* processed holds the positions of the column already grouped
RECURSIVE VGrow(_, _, _, _)
VGrow(col_customs, j, current_group, processed) ==
    IF j > Len(col_customs) THEN [group |-> current_group, processed |-> processed]
    ELSE IF j \in processed THEN VGrow(col_customs, j + 1, current_group, processed)
    ELSE IF VAdjacent(current_group[Len(current_group)], col_customs[j])
    THEN VGrow(col_customs, j + 1, Append(current_group, col_customs[j]),
               processed \cup {j})
    ELSE [group |-> current_group, processed |-> processed]

\* the outer loop over a column (lines 1595-1625)
RECURSIVE VGroups(_, _, _)
VGroups(col_customs, i, processed) ==
    IF i > Len(col_customs) THEN <<>>
    ELSE IF i \in processed THEN VGroups(col_customs, i + 1, processed)
    ELSE LET g == VGrow(col_customs, i + 1, <<col_customs[i]>>, processed \cup {i})
         IN <<merge_custom_group_vertical(g.group)>>
                \o VGroups(col_customs, i + 1, g.processed)

\* _merge_adjacent_customs_vertical (lines 1577-1632); every piece lies in
\* one column, so the closing loop over unprocessed pieces adds nothing
merge_adjacent_customs_vertical(customs) ==
    IF Len(customs) < 2 THEN customs
    ELSE LET keys == OrderedKeys([i \in 1..Len(customs) |-> VColX(customs[i])])
             Col(k) == SelectSeq(customs, LAMBDA c : VColX(c) = k)
             Sorted(k) == StableSortBy(Col(k), [i \in 1..Len(Col(k)) |-> Col(k)[i].y])
         IN Concat([n \in 1..Len(keys) |-> VGroups(Sorted(keys[n]), 1, {})])

\* the test of lines 1700-1701
ReplaceFits(w, h, std_width) ==
    /\ Abs(w - std_width) <= SCARTO_CUSTOM_MM
    /\ Abs(h - BLOCK_HEIGHT) <= SCARTO_CUSTOM_MM

\* the loop of lines 1696-1706: None, or Some(<<best_match, best_waste>>)
RECURSIVE BestMatch(_, _, _, _, _)
BestMatch(w, h, widths, k, match) ==
    IF k > Len(widths) THEN match
    ELSE LET waste == Abs(w - widths[k]) + Abs(h - BLOCK_HEIGHT)
         IN IF ReplaceFits(w, h, widths[k]) /\ (match = None \/ waste < match[1][2])
            THEN BestMatch(w, h, widths, k + 1, Some(<<widths[k], waste>>))
            ELSE BestMatch(w, h, widths, k + 1, match)

\* if best_match: (line 1708)
Replaced(c, widths) ==
    LET match == BestMatch(c.width, c.height, widths, 1, None)
    IN match # None /\ match[1][1] # 0

\* _replace_customs_with_standards (lines 1685-1716)
replace_customs_with_standards(placed, customs, widths) ==
    [placed |-> placed \o Concat([k \in 1..Len(customs) |->
                    IF Replaced(customs[k], widths)
                    THEN <<mk_std(customs[k].x, customs[k].y,
                                  BestMatch(customs[k].width, customs[k].height,
                                            widths, 1, None)[1][1],
                                  BLOCK_HEIGHT)>>
                    ELSE <<>>]),
     custom |-> SelectSeq(customs, LAMBDA c : ~Replaced(c, widths))]

\* _can_merge_customs (lines 1750-1763): the distance of the two centres is
\* at most 100; compared on doubled coordinates, squared
can_merge_customs(custom1, custom2) ==
    LET dx == (2 * custom1.x + custom1.width) - (2 * custom2.x + custom2.width)
        dy == (2 * custom1.y + custom1.height) - (2 * custom2.y + custom2.height)
    IN dx * dx + dy * dy <= (2 * 100) * (2 * 100)

\* _merge_two_customs (lines 1766-1787)
merge_two_customs(custom1, custom2) ==
    LET min_x == Min2(custom1.x, custom2.x)
        max_x == Max2(custom1.x + custom1.width, custom2.x + custom2.width)
        min_y == Min2(custom1.y, custom2.y)
        max_y == Max2(custom1.y + custom1.height, custom2.y + custom2.height)
    IN [type |-> <<"custom">>, width |-> snap(max_x - min_x),
        height |-> snap(max_y - min_y), x |-> snap(min_x), y |-> snap(min_y),
        geometry |-> unary_union(<<custom1.geometry, custom2.geometry>>),
        ctype |-> "2"]

\* a micro piece that found no neighbour is kept (line 1741)
MicroKept(w, h) == w >= 20 /\ h >= 20

\* the loop of _eliminate_micro_customs (lines 1723-1745)
RECURSIVE EliminateLoop(_, _, _, _)
EliminateLoop(customs, k, filtered, min_size) ==
    IF k > Len(customs) THEN filtered
    ELSE LET c == customs[k]
             cands == {i \in 1..Len(filtered) : can_merge_customs(c, filtered[i])}
             i == SetMin(cands)
             rest == [n \in 1..(Len(filtered) - 1) |->
                         IF n < i THEN filtered[n] ELSE filtered[n + 1]]
         IN IF c.width < min_size \/ c.height < min_size
            THEN IF cands # {}
                 THEN EliminateLoop(customs, k + 1,
                                    Append(rest, merge_two_customs(c, filtered[i])), min_size)
                 ELSE IF MicroKept(c.width, c.height)
                 THEN EliminateLoop(customs, k + 1, Append(filtered, c), min_size)
                 ELSE EliminateLoop(customs, k + 1, filtered, min_size)
            ELSE EliminateLoop(customs, k + 1, Append(filtered, c), min_size)

\* _eliminate_micro_customs (lines 1719-1747)
eliminate_micro_customs(customs, min_size) == EliminateLoop(customs, 1, <<>>, min_size)

\* the copy of one piece with snapped position and size (lines 1794-1798)
Aligned(p) ==
    [k \in DOMAIN p |-> IF k \in {"x", "y", "width", "height"} THEN snap(p[k]) ELSE p[k]]

\* _align_blocks_to_grid (lines 1790-1810)
align_blocks_to_grid(placed, customs) ==
    [placed |-> [i \in 1..Len(placed) |-> Aligned(placed[i])],
     custom |-> [i \in 1..Len(customs) |-> Aligned(customs[i])]]

\* opt_pass (lines 1485-1524)
opt_pass(placed, custom, widths) ==
    IF custom = <<>> THEN [placed |-> placed, custom |-> custom]
    ELSE LET merged == merge_adjacent_customs_vertical(
                           merge_adjacent_customs_horizontal(custom))
             replaced == replace_customs_with_standards(placed, merged, widths)
             optimized_custom == eliminate_micro_customs(replaced.custom, 50)
         IN align_blocks_to_grid(replaced.placed, optimized_custom)

\* ------------------------------------------------------------------------
\* pack_wall of the main packer followed by opt_pass, as the callers run
\* them (src/main.py 2853-2854)
\* ------------------------------------------------------------------------
OptMaxUnits == 2
OptTails == {0, 10, 30, 100, 408}
OptHeights == {495, 990, 1000}
OptWalls ==
    {Polygon(box(0, 0, 413 * k + t, h), <<>>) :
        k \in 1..OptMaxUnits, t \in OptTails, h \in OptHeights}

OptInit ==
    /\ pc = "pack_wall"
    /\ polygon \in OptWalls
    /\ apertures \in {<<>>, <<{FullDoor(polygon)}>>}
    /\ block_widths = BLOCK_WIDTHS
    /\ block_height = BLOCK_HEIGHT
    /\ row_offset \in RowOffsets
    /\ PackIdle
    /\ placed_all = <<>>
    /\ custom_all = <<>>
    /\ LabelsIdle
    /\ SegIdle
    /\ runs = <<>>

\* placed, custom = opt_pass(placed, custom, BLOCK_WIDTHS)
OptPass ==
    /\ pc = "done"
    /\ LET res == opt_pass(placed_all, custom_all, block_widths)
       IN /\ placed_all' = res.placed
          /\ custom_all' = res.custom
    /\ pc' = "optimised"
    /\ UNCHANGED <<args, keepout, complete_rows, remaining_space, y, row, log,
                   labelVars, segVars, runs>>

OptNext == MainSetup \/ MainCourse \/ MainPost \/ OptPass

SpecOpt == OptInit /\ [][OptNext]_vars

\* ------------------------------------------------------------------------
\* Several runs one after the other
\* ------------------------------------------------------------------------
MaxRuns == 3

RunWalls == {Polygon(box(0, 0, 1249, 495), <<>>), Polygon(box(0, 0, 2478, 990), <<>>)}
RunOffsets == {None, Some(826)}

RunsInit ==
    /\ pc = "idle"
    /\ ArgsIdle
    /\ PackIdle
    /\ placed_all = <<>>
    /\ custom_all = <<>>
    /\ LabelsIdle
    /\ SegIdle
    /\ runs = <<>>

\* a caller starts pack_wall
NewCall ==
    /\ pc = "idle"
    /\ Len(runs) < MaxRuns
    /\ polygon' \in RunWalls
    /\ apertures' \in {<<>>, <<{FullDoor(polygon')}>>}
    /\ row_offset' \in RunOffsets
    /\ pc' = "pack_wall"
    /\ UNCHANGED <<block_widths, block_height, packVars, labelVars, segVars, runs>>

\* the caller has the plan and its labels
RecordRun ==
    /\ pc = "labelled"
    /\ runs' = Append(runs, [args |-> args, placed |-> placed_all, customs |-> custom_all,
                             std_labels |-> std_labels, custom_labels |-> custom_labels])
    /\ pc' = "idle"
    /\ UNCHANGED <<args, packVars, labelVars, segVars>>

RunsNext == NewCall \/ MainSetup \/ MainCourse \/ MainPost \/ CreateBlockLabels \/ RecordRun

SpecRuns == RunsInit /\ [][RunsNext]_vars

\* ------------------------------------------------------------------------
\* _pack_segment on its own (src/main.py 1403-1414), order by order
\* ------------------------------------------------------------------------
Notches == {box(0, 0, 0, 0), box(1239, 0, 1652, 200), box(100, 100, 200, 200),
            box(600, 300, 700, 495)}

SegInputs ==
    {[comp |-> DifferenceRect({box(0, 0, 413 * k + t, BLOCK_HEIGHT)}, n),
      y |-> 0, stripe_top |-> BLOCK_HEIGHT, offset |-> off] :
        k \in 1..MainMaxUnits, t \in Tails, n \in Notches, off \in {0, 413, 826}}

SegInit ==
    /\ pc = "pack_segment"
    /\ seg \in SegInputs
    /\ order_k = 1
    /\ best = NoBest
    /\ tried = <<>>
    /\ ArgsIdle
    /\ PackIdle
    /\ placed_all = <<>>
    /\ custom_all = <<>>
    /\ LabelsIdle
    /\ runs = <<>>

\* lines 1408-1413: one order is tried
TryOrder ==
    /\ pc = "pack_segment"
    /\ order_k <= Len(BLOCK_ORDERS)
    /\ LET try == Main_pack_segment_with_order(seg.comp, seg.y, seg.stripe_top,
                                               BLOCK_ORDERS[order_k], seg.offset)
       IN /\ tried' = Append(tried, try)
          /\ best' = KeepBest(best, try)
    /\ order_k' = order_k + 1
    /\ UNCHANGED <<pc, seg, args, packVars, labelVars, runs>>

\* line 1414
SegReturn ==
    /\ pc = "pack_segment"
    /\ order_k > Len(BLOCK_ORDERS)
    /\ pc' = "segment_done"
    /\ UNCHANGED <<segVars, args, packVars, labelVars, runs>>

SegNext == TryOrder \/ SegReturn

SpecSeg == SegInit /\ [][SegNext]_vars

\* ------------------------------------------------------------------------
\* validate_and_tag_customs and create_block_labels on given lists
\* ------------------------------------------------------------------------
MaxTagged == 1
MaxPlaced == 2
MaxCustoms == 2

RECURSIVE ListsUpTo(_, _)
ListsUpTo(S, n) ==
    IF n = 0 THEN {<<>>}
    ELSE LET shorter == ListsUpTo(S, n - 1)
         IN shorter \cup {Append(l, e) : l \in {m \in shorter : Len(m) = n - 1}, e \in S}

TagWidths == {1, 412, 413, 417, 418, 419, 1243, 1244, 1245}
TagHeights == {1, 489, 490, 495, 500, 501}
TagPieces == {Core_mk_custom_default({box(0, 0, w, h)}) : w \in TagWidths, h \in TagHeights}

TagInit ==
    /\ pc = "tag"
    /\ custom_all \in ListsUpTo(TagPieces, MaxTagged)
    /\ placed_all = <<>>
    /\ ArgsIdle
    /\ PackIdle
    /\ LabelsIdle
    /\ SegIdle
    /\ runs = <<>>

\* src/core/wall_builder.py 557-584
CoreValidate ==
    /\ pc = "tag"
    /\ custom_all' = Core_validate_and_tag_customs(custom_all)
    /\ pc' = "tagged_core"
    /\ UNCHANGED <<args, keepout, complete_rows, remaining_space, y, row, placed_all, log,
                   labelVars, segVars, runs>>

\* src/main.py 1864-1879
MainValidate ==
    /\ pc = "tag"
    /\ custom_all' = Main_validate_and_tag_customs(custom_all)
    /\ pc' = "tagged_main"
    /\ UNCHANGED <<args, keepout, complete_rows, remaining_space, y, row, placed_all, log,
                   labelVars, segVars, runs>>

TagNext == CoreValidate \/ MainValidate

SpecTag == TagInit /\ [][TagNext]_vars

LabelWidths == {1239, 826, 413, 1000, 600}
LabelPlaced == {mk_std(0, 0, w, BLOCK_HEIGHT) : w \in LabelWidths}
LabelCustoms ==
    {Main_mk_custom({box(0, 0, 100, 100)})}
        \cup {Tagged(Main_mk_custom({box(0, 0, 100, 100)}), ct) : ct \in {"1", "2", "out_of_spec"}}

LabelInit ==
    /\ pc = "done"
    /\ placed_all \in ListsUpTo(LabelPlaced, MaxPlaced)
    /\ custom_all \in ListsUpTo(LabelCustoms, MaxCustoms)
    /\ ArgsIdle
    /\ PackIdle
    /\ LabelsIdle
    /\ SegIdle
    /\ runs = <<>>

LabelNext == CreateBlockLabels

SpecLabel == LabelInit /\ [][LabelNext]_vars

\* ------------------------------------------------------------------------
\* Properties of the core packer
\* ------------------------------------------------------------------------
\* the region to be covered: wall minus keep-out
Packable == Difference(PolyGeom(polygon), keepout)

\* C1 (Containment): every placement of the placed list has its rectangle
\* inside the wall polygon and meets the keep-out mask in an area of at most
\* AREA_EPS.
C1_Containment ==
    \A i \in 1..Len(placed_all) :
        LET r == PieceRect(placed_all[i])
        IN /\ Contains(PolyGeom(polygon), r)
           /\ LeEpsTimes(InterArea({r}, keepout), 1)

\* C2 (Non-overlap): any two distinct placements of the placed list meet in
\* an area of at most AREA_EPS.
C2_NonOverlap ==
    \A i, j \in 1..Len(placed_all) :
        i # j => LeEpsTimes(RectArea(RectInter(PieceRect(placed_all[i]),
                                               PieceRect(placed_all[j]))), 1)

\* C3 (Coverage): when pack_wall has returned, the area of wall minus
\* keep-out exceeds the total area of the placements and custom geometries
\* by at most AREA_EPS times the number of pieces.
C3_Coverage ==
    pc = "done" =>
        LeEpsTimes(Area(Packable) - (PiecesArea(placed_all) + PiecesArea(custom_all)),
                   Len(placed_all) + Len(custom_all))

FullCourses == SelectSeq(log, LAMBDA e : e.kind = "full")
AdaptiveCourses == SelectSeq(log, LAMBDA e : e.kind = "adaptive")
AllPieces == placed_all \o custom_all

\* C5 (Course count): once the courses are packed, the full courses are
\* exactly floor((maxy - miny) / block_height), the k-th at
\* y = miny + k * block_height; there is one adaptive course, of height r and
\* after the full ones, exactly when the residual r is at least 150, and none
\* otherwise; with r < 150 no piece is positioned at or above the top of the
\* last full course.
C5_CourseCount ==
    pc \in {"post", "done"} =>
        LET miny == polygon.ext.y0
            H == polygon.ext.y1 - miny
            N == H \div block_height
            r == H - N * block_height
        IN /\ Len(FullCourses) = N
           /\ \A k \in 1..Len(FullCourses) :
                 /\ FullCourses[k].y = miny + (k - 1) * block_height
                 /\ FullCourses[k].top = miny + k * block_height
                 /\ log[k] = FullCourses[k]
           /\ Len(AdaptiveCourses) = (IF r >= 150 THEN 1 ELSE 0)
           /\ \A k \in 1..Len(AdaptiveCourses) :
                 /\ AdaptiveCourses[k].y = miny + N * block_height
                 /\ AdaptiveCourses[k].top - AdaptiveCourses[k].y = r
           /\ \A i \in 1..Len(placed_all) :
                 placed_all[i].type[1] = "adaptive_block" =>
                     /\ r >= 150
                     /\ placed_all[i].y = miny + N * block_height
                     /\ placed_all[i].height = r
           /\ r < 150 =>
                 \A i \in 1..Len(AllPieces) : AllPieces[i].y < miny + N * block_height

\* a returned plan with full courses, an adaptive course and an adaptive block
C5_Witness ==
    /\ pc = "done"
    /\ Len(FullCourses) >= 2
    /\ Len(AdaptiveCourses) = 1
    /\ \E i \in 1..Len(placed_all) : placed_all[i].type[1] = "adaptive_block"

\* ------------------------------------------------------------------------
\* Properties of validate_and_tag_customs (core)
\* ------------------------------------------------------------------------
\* C4 (Classification soundness): every custom piece tagged by the core
\* validate_and_tag_customs with bounding-box width w and height h has
\* ctype 1 only if |h - 495| <= 5 and w <= 1239 + 5, and ctype out_of_spec
\* only if w > 1239 + 5 or h > 495 + 5.
C4_ClassificationSound ==
    pc = "tagged_core" =>
        \A i \in 1..Len(custom_all) :
            LET w == custom_all[i].width
                h == custom_all[i].height
                max_w == SetMax(SeqRange(BLOCK_WIDTHS)) + SCARTO_CUSTOM_MM
                max_h == BLOCK_HEIGHT + SCARTO_CUSTOM_MM
            IN /\ custom_all[i].ctype = "1" =>
                     (Abs(h - BLOCK_HEIGHT) <= SCARTO_CUSTOM_MM /\ w <= max_w)
               /\ custom_all[i].ctype = "out_of_spec" => (w > max_w \/ h > max_h)

\* ------------------------------------------------------------------------
\* Properties of the main packer
\* ------------------------------------------------------------------------
RunsWithEqualArgs ==
    {p \in (1..Len(runs)) \X (1..Len(runs)) : p[1] < p[2] /\ runs[p[1]].args = runs[p[2]].args}

\* C6 (Determinism): any two completed runs of pack_wall followed by
\* create_block_labels on the same wall, apertures and configuration have the
\* same placed list, the same customs list and the same labels, whatever
\* calls came before them.
C6_Determinism ==
    \A p \in RunsWithEqualArgs :
        /\ runs[p[1]].placed = runs[p[2]].placed
        /\ runs[p[1]].customs = runs[p[2]].customs
        /\ runs[p[1]].std_labels = runs[p[2]].std_labels
        /\ runs[p[1]].custom_labels = runs[p[2]].custom_labels

\* the same call made twice, with a different call in between, each with
\* standard and custom pieces
C6_Witness ==
    /\ Len(runs) = 3
    /\ runs[1].args = runs[3].args
    /\ runs[2].args # runs[1].args
    /\ \A k \in 1..3 : runs[k].placed # <<>> /\ runs[k].customs # <<>>

IsInjective(labels) ==
    \A i, j \in 1..Len(labels) : i # j => labels[i] # labels[j]

\* C7 (Label uniqueness): create_block_labels gives the standard placements
\* pairwise distinct labels and the custom pieces pairwise distinct labels,
\* so that a mapping keyed by the standard labels has one entry per
\* placement.
C7_LabelsUnique ==
    pc = "labelled" =>
        /\ Len(std_labels) = Len(placed_all)
        /\ Len(custom_labels) = Len(custom_all)
        /\ IsInjective(std_labels)
        /\ IsInjective(custom_labels)
        /\ Cardinality(SeqRange(std_labels)) = Len(placed_all)

\* two placements of one letter, one of them by the nearest-width fallback,
\* and two custom pieces of one code
C7_Witness ==
    /\ pc = "labelled"
    /\ \E i, j \in 1..Len(placed_all) :
          /\ i # j
          /\ placed_all[i].width \notin DOMAIN SIZE_TO_LETTER
          /\ StdLetter(placed_all[i].width) = StdLetter(placed_all[j].width)
    /\ \E i, j \in 1..Len(custom_all) :
          i # j /\ CustomCode(custom_all[i]) = "X" /\ CustomCode(custom_all[j]) = "X"

TriedScore(k) == score_solution(tried[k].placed, tried[k].custom)
\* the first order whose solution has the smallest score
FirstBest ==
    CHOOSE k \in 1..Len(tried) :
        /\ \A j \in 1..Len(tried) : ~ScoreLess(TriedScore(j), TriedScore(k))
        /\ \A j \in 1..(k - 1) : ScoreLess(TriedScore(k), TriedScore(j))

\* C8 (Order-trial monotonicity): the solution returned by _pack_segment
\* scores no more than the solution of any order of BLOCK_ORDERS, and among
\* orders of equal score it is the solution of the earliest.
C8_OrderMonotone ==
    pc = "segment_done" =>
        /\ Len(tried) = Len(BLOCK_ORDERS)
        /\ \A k \in 1..Len(tried) :
              ~ScoreLess(TriedScore(k), score_solution(best.placed, best.custom))
        /\ best.placed = tried[FirstBest].placed
        /\ best.custom = tried[FirstBest].custom

\* a segment where the second order beats the first
C8_Witness ==
    /\ pc = "segment_done"
    /\ ScoreLess(TriedScore(2), TriedScore(1))
    /\ best.placed = tried[2].placed
    /\ best.placed # tried[1].placed

\* a segment where the two orders tie with different solutions
C8_TieReached ==
    /\ pc = "segment_done"
    /\ TriedScore(1) = TriedScore(2)
    /\ tried[1] # tried[2]

S1Call ==
    /\ polygon = Polygon(box(0, 0, 2478, 990), <<>>)
    /\ apertures = <<>>
    /\ block_widths = BLOCK_WIDTHS
    /\ block_height = BLOCK_HEIGHT
    /\ row_offset = Some(826)

Widths(placed) == [i \in 1..Len(placed) |-> placed[i].width]

\* C9 (Scenario S1, as the program behaves): for the wall
\* rectangle(0,0,2478,990) with no apertures and the default configuration,
\* pack_wall returns five standard placements, of widths 1239, 1239 in the
\* first course and 826, 1239, 413 in the second, and no custom piece, and
\* create_block_labels labels them A1, A2, B1, A3, C1.
C9_S1_Amended ==
    (S1Call /\ pc = "labelled") =>
        /\ Widths(placed_all) = <<1239, 1239, 826, 1239, 413>>
        /\ [i \in 1..Len(placed_all) |-> <<placed_all[i].x, placed_all[i].y>>]
              = <<(<<0, 0>>), (<<1239, 0>>), (<<0, 495>>), (<<826, 495>>), (<<2065, 495>>)>>
        /\ custom_all = <<>>
        /\ std_labels = <<(<<"A", "1">>), (<<"A", "2">>), (<<"B", "1">>),
                          (<<"A", "3">>), (<<"C", "1">>)>>
        /\ custom_labels = <<>>

\* C9 as the specification states it: four standard placements, no custom
\* piece, labels B1, B2, B3, B4.
C9_S1_Original ==
    (S1Call /\ pc = "labelled") =>
        /\ Len(placed_all) = 4
        /\ Len(custom_all) = 0
        /\ std_labels = <<(<<"B", "1">>), (<<"B", "2">>), (<<"B", "3">>), (<<"B", "4">>)>>

\* the S1 call has returned and its plan is labelled
C9_Witness == S1Call /\ pc = "labelled" /\ Len(std_labels) = Len(placed_all) /\ row = 2

\* C10 (Scenario S5): a call of pack_wall with a single aperture whose area
\* is 0.9 of the wall's area returns the placed and customs lists of the
\* call with the same wall and no apertures.
C10_S5_ApertureDiscarded ==
    (/\ pc \in {"done", "labelled"}
     /\ Len(apertures) = 1
     /\ 10 * Area(apertures[1]) = 9 * PolyArea(polygon)) =>
        LET bare == Main_pack_wall(polygon, <<>>, block_height, row_offset)
        IN placed_all = bare.placed /\ custom_all = bare.custom

\* the tail that placing the widest fitting block, again and again, leaves
\* of a length L
RECURSIVE LargestFirstTail(_)
LargestFirstTail(L) ==
    LET fit == {w \in SeqRange(BLOCK_WIDTHS) : w <= L}
    IN IF fit = {} THEN L ELSE LargestFirstTail(L - SetMax(fit))

S6Call ==
    /\ polygon.ext.x0 = 0
    /\ polygon.ext.y0 = 0
    /\ polygon.ext.y1 = BLOCK_HEIGHT
    /\ polygon.holes = <<>>
    /\ apertures = <<>>
    /\ block_height = BLOCK_HEIGHT
    /\ LargestFirstTail(polygon.ext.x1) = 10

\* C11 (Scenario S6): for a single-course wall rectangle(0,0,L,495) on which
\* largest-first placement leaves a tail of width 10, the plan returned by
\* pack_wall of the main packer has no custom piece.
C11_S6_NoCustom ==
    (S6Call /\ pc = "done") => custom_all = <<>>

\* ------------------------------------------------------------------------
\* Further properties of the core packer
\* ------------------------------------------------------------------------
InOneBand(g) ==
    \E k \in 0..(Bounds(g).y1 \div BLOCK_HEIGHT) :
        k * BLOCK_HEIGHT <= Bounds(g).y0 /\ Bounds(g).y1 <= (k + 1) * BLOCK_HEIGHT

\* C12 (Row-aware coalescing): with courses of the standard height, every
\* piece that merge_customs_row_aware makes of the packer's custom pieces
\* lies within one course band [k*495, (k+1)*495], the input pieces each
\* lying within one band.
C12_MergeWithinCourse ==
    (/\ pc = "post"
     /\ block_height = BLOCK_HEIGHT
     /\ \A i \in 1..Len(custom_all) : InOneBand(custom_all[i].geometry)) =>
        LET merged == Core_merge_customs_row_aware(custom_all, BLOCK_HEIGHT)
        IN \A i \in 1..Len(merged) : InOneBand(merged[i].geometry)

\* C13 (Configuration errors): a call of the core pack_wall with an empty
\* block_widths list or with block_height <= 0 never returns normally.
C13_ConfigError ==
    (block_widths = <<>> \/ block_height <= 0) => pc # "done"

\* C14 (Degenerate wall): with a valid configuration, a call of the core
\* pack_wall on a wall of area below AREA_EPS raises nothing and returns an
\* empty placed list and an empty customs list.
C14_DegenerateWall ==
    (PolyArea(polygon) = 0 /\ block_widths # <<>> /\ block_height > 0) =>
        /\ pc # "raised"
        /\ pc = "done" => (placed_all = <<>> /\ custom_all = <<>>)

\* C15 (Standard block height): every standard placement that the core
\* pack_wall emits for a full course has the height of the call's
\* block_height argument.
C15_StdBlockHeight ==
    \A i \in 1..Len(placed_all) :
        placed_all[i].type[1] = "std" => placed_all[i].height = block_height

\* ------------------------------------------------------------------------
\* Further properties of the main packer
\* ------------------------------------------------------------------------
\* C16 (Widths from the configuration): every standard placement returned
\* by pack_wall of the main packer has a width that is a member of the
\* block_widths argument of the call.
C16_WidthsFromConfig ==
    pc \in {"done", "labelled"} =>
        \A i \in 1..Len(placed_all) : placed_all[i].width \in SeqRange(block_widths)

\* the offsets C17 names for the course about to be packed
C17Offsets ==
    IF row % 2 = 0 THEN {0}
    ELSE (IF row_offset # None THEN {row_offset[1]} ELSE {})
             \cup {SetMin(SeqRange(block_widths))}

C17Solution(comp, off) ==
    LET r == Main_pack_segment(comp, y, Min2(y + block_height, polygon.ext.y1),
                               block_widths, off)
    IN [placed |-> r.placed, custom |-> r.custom]

C17Score(k) == score_solution(k.placed, k.custom)
C17FirstX(k) == SetMin({k.placed[i].x : i \in 1..Len(k.placed)}
                           \cup {k.custom[i].x : i \in 1..Len(k.custom)})

\* the results C17 allows for a component
C17Allowed(comp) ==
    {k \in {C17Solution(comp, off) : off \in C17Offsets} :
        /\ \A off \in C17Offsets : ~ScoreLess(C17Score(C17Solution(comp, off)), C17Score(k))
        /\ row % 2 = 0 => C17FirstX(k) = snap(Bounds(comp).x0)}

\* a course step as C17 describes it
C17CourseStep ==
    (pc = "rows" /\ y < polygon.ext.y1) =>
        LET comps == LiveComps(polygon, keepout, y, Min2(y + block_height, polygon.ext.y1))
        IN \E f \in [1..Len(comps) -> UNION {C17Allowed(comps[i]) : i \in 1..Len(comps)}] :
              /\ \A i \in 1..Len(comps) : f[i] \in C17Allowed(comps[i])
              /\ placed_all' = placed_all \o Concat([i \in 1..Len(comps) |-> f[i].placed])
              /\ custom_all' = custom_all \o Concat([i \in 1..Len(comps) |-> f[i].custom])

\* C17 (Course offset selection): in every course step of the main
\* pack_wall, each component of an even course contributes its packing with
\* offset 0, starting at the component's left edge, and each component of
\* an odd course contributes one of its packings with the configured
\* row_offset and with the smallest width, of score no more than the other.
C17_OffsetSelection == [][C17CourseStep]_vars

\* the components of the course that starts at height yc, in the core packer
C18CourseComps(yc) ==
    LET full == yc < polygon.ext.y0 + complete_rows * block_height
        top == IF full THEN yc + block_height
               ELSE yc + Min2(remaining_space, block_height)
    IN LiveComps(polygon, keepout, yc, top)

\* the component a placement was emitted for
C18Comp(p) ==
    {i \in 1..Len(C18CourseComps(p.y)) :
        /\ Bounds(C18CourseComps(p.y)[i]).x0 <= p.x
        /\ p.x < Bounds(C18CourseComps(p.y)[i]).x1}

\* C18 (Emission order): in the placed list of the core pack_wall the
\* placements come with non-decreasing y, those of the adaptive course
\* last, and the placements of one component of one course are contiguous
\* and in strictly increasing x.
C18_EmissionOrder ==
    pc \in {"rows", "post", "done"} =>
        \A i, j \in 1..Len(placed_all) :
            i < j =>
                /\ placed_all[i].y <= placed_all[j].y
                /\ placed_all[i].type[1] = "adaptive_block" =>
                       placed_all[j].type[1] = "adaptive_block"
                /\ (placed_all[i].y = placed_all[j].y
                       /\ C18Comp(placed_all[i]) = C18Comp(placed_all[j])) =>
                          /\ placed_all[i].x < placed_all[j].x
                          /\ \A k \in i..j : C18Comp(placed_all[k]) = C18Comp(placed_all[i])

\* a returned plan with a course of two components, each with placements,
\* several placements in one component, and an adaptive course
C18_Witness ==
    /\ pc = "done"
    /\ \E i, j, k \in 1..Len(placed_all) :
          /\ i < j /\ j < k
          /\ placed_all[i].y = placed_all[k].y
          /\ C18Comp(placed_all[i]) # C18Comp(placed_all[k])
          /\ C18Comp(placed_all[j]) = C18Comp(placed_all[k])
    /\ \E i \in 1..Len(placed_all) : placed_all[i].type[1] = "adaptive_block"
    /\ \E i \in 1..Len(placed_all) : placed_all[i].y > polygon.ext.y0

\* ------------------------------------------------------------------------
\* Properties of opt_pass
\* ------------------------------------------------------------------------
\* the coverage invariant of a plan: wall minus keep-out exceeds the total
\* area of the pieces by at most AREA_EPS times the number of pieces
C19Covers(placed, custom) ==
    LeEpsTimes(Area(Packable) - (PiecesArea(placed) + PiecesArea(custom)),
               Len(placed) + Len(custom))

\* the part of a geometry left uncovered by the pieces of a plan
C19Uncovered(geom, placed, custom) ==
    Difference(
        Difference(geom, {PieceRect(placed[i]) : i \in 1..Len(placed)}),
        UNION {custom[i].geometry : i \in 1..Len(custom)})

C19OptStep ==
    pc = "done" /\ pc' = "optimised" /\ C19Covers(placed_all, custom_all) =>
        /\ C19Covers(placed_all', custom_all')
        /\ \A i \in 1..Len(custom_all) :
               LeEpsTimes(Area(C19Uncovered(custom_all[i].geometry,
                                            placed_all', custom_all')), 1)

\* C19 (opt_pass preserves coverage): whenever opt_pass runs on a plan that
\* satisfies the coverage invariant, the plan it returns satisfies it too,
\* and every custom piece of the input is covered by the pieces of the
\* result up to AREA_EPS.
C19_OptCoverage == [][C19OptStep]_vars

C20Disjoint(placed) ==
    \A i, j \in 1..Len(placed) :
        i # j => LeEpsTimes(RectArea(RectInter(PieceRect(placed[i]),
                                               PieceRect(placed[j]))), 1)

C20Inside(placed) ==
    \A i \in 1..Len(placed) : Contains(PolyGeom(polygon), PieceRect(placed[i]))

C20OptStep ==
    pc = "done" /\ pc' = "optimised" /\ C20Disjoint(placed_all) /\ C20Inside(placed_all) =>
        C20Disjoint(placed_all') /\ C20Inside(placed_all')

\* C20 (opt_pass preserves containment and non-overlap): whenever opt_pass
\* runs on a plan whose standard rectangles are pairwise non-overlapping and
\* inside the wall, the rectangles of the placed list it returns, the
\* substituted standard blocks included, are pairwise non-overlapping up to
\* AREA_EPS and inside the wall.
C20_OptContainment == [][C20OptStep]_vars

\* ------------------------------------------------------------------------
\* Properties of the returned custom pieces
\* ------------------------------------------------------------------------
\* C21 (Advisory source block): when the core pack_wall has returned, every
\* custom piece carries source_block_width equal to the smallest width of
\* block_widths that is at least the piece's width (the largest width when
\* none is), and waste equal to source_block_width minus the piece's width.
C21_AdvisorySourceBlock ==
    pc = "done" =>
        \A i \in 1..Len(custom_all) :
            LET c == custom_all[i]
                big == {w \in SeqRange(block_widths) : w >= c.width}
                source == IF big = {} THEN SetMax(SeqRange(block_widths)) ELSE SetMin(big)
            IN /\ c.source_block_width = source
               /\ c.waste = source - c.width

\* an aperture the filter is to keep: area at least 1000 and at most four
\* fifths of the wall area
C22Survives(ap) == Area(ap) >= 1000 /\ 5 * Area(ap) <= 4 * PolyArea(polygon)

\* the union of the wall holes and the surviving apertures
C22Union ==
    unary_union([i \in 1..Len(polygon.holes) |-> {polygon.holes[i]}]
                    \o SelectSeq(apertures, C22Survives))

C23Merged == Core_merge_customs_row_aware(custom_all, BLOCK_HEIGHT)

C23InSpec(c) ==
    /\ c.width <= SPLIT_MAX_WIDTH_MM + SCARTO_CUSTOM_MM
    /\ c.height <= 495 + SCARTO_CUSTOM_MM

\* the geometries that take the place of one piece: the piece itself, or its
\* vertical strips of width max_w counted from its left edge
C23Pieces(c) ==
    LET b == Bounds(c.geometry)
        n == ((b.x1 - b.x0) + SPLIT_MAX_WIDTH_MM - 1) \div SPLIT_MAX_WIDTH_MM
    IN IF C23InSpec(c) THEN <<c.geometry>>
       ELSE [k \in 1..n |->
               Intersection(c.geometry,
                            box(b.x0 + (k - 1) * SPLIT_MAX_WIDTH_MM, b.y0,
                                Min2(b.x0 + k * SPLIT_MAX_WIDTH_MM, b.x1), b.y1))]

C23Untagged(c) == [f \in (DOMAIN c) \ {"ctype"} |-> c[f]]

C23SplitStep ==
    pc = "post" /\ pc' = "done" =>
        /\ [i \in 1..Len(custom_all') |-> custom_all'[i].geometry]
               = Concat([k \in 1..Len(C23Merged) |-> C23Pieces(C23Merged[k])])
        /\ \A i \in 1..Len(custom_all') :
               /\ custom_all'[i].width <= SPLIT_MAX_WIDTH_MM + SCARTO_CUSTOM_MM
               /\ custom_all'[i].width
                      = Bounds(custom_all'[i].geometry).x1 - Bounds(custom_all'[i].geometry).x0
        /\ \A k \in 1..Len(C23Merged) :
               IF C23InSpec(C23Merged[k])
               THEN \E i \in 1..Len(custom_all') : C23Untagged(custom_all'[i]) = C23Merged[k]
               ELSE \A j \in 1..(Len(C23Pieces(C23Merged[k])) - 1) :
                        Bounds(C23Pieces(C23Merged[k])[j]).x1
                            - Bounds(C23Pieces(C23Merged[k])[j]).x0 = SPLIT_MAX_WIDTH_MM

\* C23 (Out-of-spec splitting bounds width): when the core pack_wall splits
\* its coalesced customs, every returned piece has bounding-box width at most
\* max_w + SCARTO_CUSTOM_MM, the pieces already in spec are returned unchanged
\* and in place, and every out-of-spec piece is replaced by its strips of
\* width max_w, only the last of which may be narrower.
C23_SplitBoundsWidth == [][C23SplitStep]_vars

\* a returned plan with two strips of one split piece side by side, the
\* first of width max_w and the last narrower, and a piece kept as it was
C23_Witness ==
    /\ pc = "done"
    /\ \E i \in 1..(Len(custom_all) - 1) :
          /\ custom_all[i].width = SPLIT_MAX_WIDTH_MM
          /\ custom_all[i + 1].y = custom_all[i].y
          /\ custom_all[i + 1].x = custom_all[i].x + SPLIT_MAX_WIDTH_MM
          /\ custom_all[i + 1].width < SPLIT_MAX_WIDTH_MM
    /\ \E i, j \in 1..Len(custom_all) : custom_all[i].y # custom_all[j].y

\* ------------------------------------------------------------------------
\* Properties of the tail backtrack of the main segment packer
\* ------------------------------------------------------------------------
\* C24 (Tail backtrack reverts the last placement): in every order tried by
\* _pack_segment, each backtrack on a micro rest restores a cursor strictly
\* left of the cursor at which no width fitted and removes at least the last
\* piece emitted from the result lists.
C24_BacktrackReverts ==
    \A k \in 1..Len(tried) :
        \A n \in 1..Len(tried[k].reverts) :
            /\ tried[k].reverts[n].cursor_prev < tried[k].reverts[n].at
            /\ tried[k].reverts[n].cut >= 1

\* ------------------------------------------------------------------------
\* Properties of the core segment packer inside pack_wall
\* ------------------------------------------------------------------------
\* the course a raw custom piece of the core packer was cut in: its index
\* and the height at which it starts
C25Row(c) == (c.y - polygon.ext.y0) \div block_height
C25CourseY(c) == polygon.ext.y0 + C25Row(c) * block_height

\* the components of that course which hold the piece's geometry
C25Comps(c) ==
    {comp \in SeqRange(C18CourseComps(C25CourseY(c))) : Difference(c.geometry, comp) = {}}

\* the custom piece is the one emitted for the starting offset of its
\* component (lines 202-210)
C25FromOffset(c, comp) ==
    /\ C25Row(c) % 2 = 1
    /\ c.x = Bounds(comp).x0
    /\ Bounds(comp).x0 + CoreOffset(C25Row(c), row_offset, block_widths) <= Bounds(comp).x1

\* C25 (Custom pieces only where no standard block fits): for every custom
\* piece that the main loop of the core _pack_segment_with_order emitted at
\* a cursor x in a full course, no width of the width list gives a rectangle
\* [x, x+w] x [y, stripe_top] that lies entirely inside the component.
C25_CustomOnlyWhereNoFit ==
    pc \in {"rows", "post"} =>
        \A i \in 1..Len(custom_all) :
            LET c == custom_all[i]
            IN C25Row(c) < complete_rows =>
                  \A comp \in C25Comps(c) :
                      ~C25FromOffset(c, comp) =>
                          \A w \in SeqRange(block_widths) :
                              ~Contains(comp, box(c.x, C25CourseY(c), c.x + w,
                                                  C25CourseY(c) + block_height))

\* a rectangular wall without apertures, packed with the default
\* configuration
C26Call ==
    /\ polygon.holes = <<>>
    /\ apertures = <<>>
    /\ block_widths = BLOCK_WIDTHS
    /\ block_height = BLOCK_HEIGHT
    /\ row_offset = Some(826)

\* the pieces of the course with index r, standard and custom
C26Course(r) ==
    {p \in SeqRange(placed_all) \cup SeqRange(custom_all) :
        p.y = polygon.ext.y0 + r * block_height}

\* the interior vertical joints of that course
C26Joints(r) ==
    {p.x : p \in {q \in C26Course(r) :
                     /\ polygon.ext.x0 < q.x
                     /\ q.x < polygon.ext.x1
                     /\ \E e \in C26Course(r) : e.x + e.width = q.x}}

\* C26 (Running bond): in the plan the core pack_wall returns for a
\* rectangular wall without apertures under the default configuration, no
\* interior vertical joint of a course is also an interior vertical joint
\* of the course above it.
C26_RunningBond ==
    (C26Call /\ pc = "done") =>
        \A r \in 0..(row - 1) : C26Joints(r) \cap C26Joints(r + 1) = {}

\* ------------------------------------------------------------------------
\* Further properties of the main packer
\* ------------------------------------------------------------------------
\* C27 (Shorter last course): in the plan returned by pack_wall of the main
\* packer every standard placement ends at or below the top of the wall, and
\* a placement of a last stripe shorter than block_height has the height of
\* that stripe.
C27_ShorterLastCourse ==
    pc = "done" =>
        \A i \in 1..Len(placed_all) :
            LET p == placed_all[i]
            IN /\ p.y + p.height <= polygon.ext.y1
               /\ polygon.ext.y1 - p.y < block_height => p.height = polygon.ext.y1 - p.y

\* no segment call of the course about to be packed makes a pass through
\* its loop that neither moves the cursor nor leaves the loop
C28NoStuckPass ==
    (pc = "rows" /\ y < polygon.ext.y1) =>
        \A comp \in SeqRange(LiveComps(polygon, keepout, y,
                                       Min2(y + block_height, polygon.ext.y1))) :
            \A off \in SeqRange(MainOffsetCandidates(row, row_offset)) :
                \A k \in 1..Len(BLOCK_ORDERS) :
                    ~Main_pack_segment_with_order(
                         comp, y, Min2(y + block_height, polygon.ext.y1),
                         BLOCK_ORDERS[k], off).loops

\* a pass of the course loop moves y up
C28CourseStep == (pc = "rows" /\ pc' = "rows") => y' > y

\* C28 (Termination): every call of pack_wall of the main packer returns:
\* no pass of a segment loop leaves the cursor where it was without leaving
\* the loop, every pass of the course loop strictly advances y, and the
\* call reaches its return.
C28_Termination ==
    /\ []C28NoStuckPass
    /\ [][C28CourseStep]_vars
    /\ <>(pc = "labelled")

\* a returned plan of several courses in which the segment loop met a micro
\* rest: a custom piece narrower than MICRO_REST_MM
C28_Witness ==
    /\ pc = "labelled"
    /\ row >= 2
    /\ \E i \in 1..Len(custom_all) : custom_all[i].width < MICRO_REST_MM

\* the plain greedy loop: at each cursor the first width of the order that
\* fits is taken; when none fits, the tail residual becomes one custom piece
\* if its area exceeds AREA_EPS, and the loop stops
RECURSIVE C29Plain(_, _, _, _)
C29Plain(comp, order, cursor, acc) ==
    LET top == snap(seg.stripe_top)
        maxx == snap(Bounds(comp).x1)
        fits == {i \in 1..Len(order) :
                    /\ cursor + order[i] <= maxx
                    /\ AreaGeEps(Area(Intersection(
                           comp, box(cursor, snap(seg.y), cursor + order[i], top))))}
        w == order[SetMin(fits)]
        piece == Intersection(comp, box(cursor, snap(seg.y), cursor + w, top))
        tail == Intersection(comp, box(cursor, snap(seg.y), maxx, top))
    IN IF ~(cursor < maxx) THEN acc
       ELSE IF fits = {}
            THEN IF AreaGeEps(Area(tail))
                 THEN [acc EXCEPT !.custom = Append(@, Main_mk_custom(tail))]
                 ELSE acc
       ELSE IF Area(piece) = RectArea(box(cursor, snap(seg.y), cursor + w, top))
            THEN C29Plain(comp, order, snap(cursor + w),
                          [acc EXCEPT !.placed =
                              Append(@, mk_std(cursor, snap(seg.y), w, BLOCK_HEIGHT))])
       ELSE C29Plain(comp, order, snap(cursor + w),
                     [acc EXCEPT !.custom = Append(@, Main_mk_custom(piece))])

\* the state of the call when its loop starts: the offset piece, if one was
\* emitted, and the cursor behind it
C29Start ==
    LET minx == snap(Bounds(seg.comp).x0)
        slot == Intersection(seg.comp,
                             box(minx, snap(seg.y), minx + seg.offset, snap(seg.stripe_top)))
        used == /\ seg.offset # 0
                /\ minx + seg.offset <= snap(Bounds(seg.comp).x1)
                /\ AreaGeEps(Area(slot))
        whole == Area(slot) = seg.offset * (snap(seg.stripe_top) - snap(seg.y))
    IN [cursor |-> IF used THEN snap(minx + seg.offset) ELSE minx,
        acc |-> [placed |-> IF used /\ whole
                            THEN <<mk_std(minx, snap(seg.y), seg.offset, BLOCK_HEIGHT)>>
                            ELSE <<>>,
                 custom |-> IF used /\ ~whole THEN <<Main_mk_custom(slot)>> ELSE <<>>]]

\* C29 (The micro-rest backtrack never changes the result): for every order
\* tried on a segment, _pack_segment_with_order returns the placed and
\* custom lists of the plain greedy loop without the backtrack branch.
C29_BacktrackNoEffect ==
    \A k \in 1..Len(tried) :
        /\ tried[k].placed
               = C29Plain(seg.comp, BLOCK_ORDERS[k], C29Start.cursor, C29Start.acc).placed
        /\ tried[k].custom
               = C29Plain(seg.comp, BLOCK_ORDERS[k], C29Start.cursor, C29Start.acc).custom

\* both orders were tried on a segment where the loop placed blocks, met a
\* micro rest and went through the backtrack branch
C29_Witness ==
    /\ Len(tried) = Len(BLOCK_ORDERS)
    /\ \A k \in 1..Len(tried) :
          /\ tried[k].reverts # <<>>
          /\ tried[k].placed # <<>>
          /\ tried[k].custom # <<>>
    /\ tried[1].placed # tried[2].placed

\* C30 (Custom pieces never overlap standard blocks): in the plan of the
\* core pack_wall, before and after the post-processing of the customs
\* (row-aware coalescing and out-of-spec splitting), the geometry of every
\* custom piece meets the rectangle of every standard placement in an area
\* of at most AREA_EPS.
C30_CustomStdDisjoint ==
    pc \in {"rows", "post", "done"} =>
        \A i \in 1..Len(custom_all) : \A j \in 1..Len(placed_all) :
            LeEpsTimes(InterArea(custom_all[i].geometry, {PieceRect(placed_all[j])}), 1)

====
